---------------------------- MODULE Spec2Model ----------------------------
(***************************************************************************)
(* The Onion virtual file driver (H5FDonion.c): a logical file kept as a   *)
(* canonical file, an append-only ".onion" history file and a              *)
(* ".onion.recovery" file.  The module models one process using the driver *)
(* through its open / set_eoa / read / write / close callbacks, the three  *)
(* backing files as they are on disk, and the pure index functions.        *)
(***************************************************************************)
EXTENDS Integers, Sequences, FiniteSets, TLC

(***************************************************************************)
(* Bounds of the exploration.                                              *)
(***************************************************************************)
\* number of write calls issued over a whole behaviour
MaxWrites == 2
\* number of revisions a history may hold
MaxRevisions == 2
\* number of pages of logical address space made addressable by set_eoa
LogiPages == 2
\* number of logical pages the indexes handed to the merge draw from
MergePages == 3
\* number of logical pages the indexes handed to the look-up draw from
FindPages == 5
\* number of insertions into a revision index whose table is about to double
IndexInserts == 4
\* index entries, and record pointers, of a stored structure handed to a decoder
StoredEntries == 2

(***************************************************************************)
(* Constants of the program.                                               *)
(***************************************************************************)
H5FD__ONION_ENCODED_SIZE_HEADER == 40
H5FD__ONION_ENCODED_SIZE_INDEX_ENTRY == 20
H5FD__ONION_ENCODED_SIZE_RECORD_POINTER == 20
H5FD__ONION_ENCODED_SIZE_REVISION_RECORD == 76
H5FD__ONION_ENCODED_SIZE_WHOLE_HISTORY == 20
H5FD__ONION_REVISION_INDEX_STARTING_SIZE_LOG2 == 10
\* UINT64_MAX in the program; the largest integer TLC holds stands for it
H5FD_ONION_FAPL_INFO_REVISION_ID_LATEST == 2147483647
\* the signature "ONIONEOF" written to a new canonical file
ONIONEOF == <<79, 78, 73, 79, 78, 69, 79, 70>>

H5FD__ONION_HEADER_FLAG_WRITE_LOCK == "WRITE_LOCK"
H5FD__ONION_HEADER_FLAG_DIVERGENT_HISTORY == "DIVERGENT_HISTORY"
H5FD__ONION_HEADER_FLAG_PAGE_ALIGNMENT == "PAGE_ALIGNMENT"

(***************************************************************************)
(* Inputs.                                                                  *)
(***************************************************************************)
\* page sizes a file-access property list may carry (powers of two)
FaPageSizes == {4}
\* comments a file-access property list may carry
FaComments == {""}
\* creation flags a file-access property list may carry
FaCreationFlags == {{}, {H5FD__ONION_HEADER_FLAG_PAGE_ALIGNMENT}}
\* strlen(pw_name) + 1 of the user running the process
pw_name_size == 2

(***************************************************************************)
(* Arithmetic helpers.                                                      *)
(***************************************************************************)
Min(a, b) == IF a < b THEN a ELSE b
Max(a, b) == IF a > b THEN a ELSE b
RECURSIVE Pow2(_)
Pow2(n) == IF n = 0 THEN 1 ELSE 2 * Pow2(n - 1)
\* x >> s and x << s on unsigned values
ShiftR(x, s) == x \div Pow2(s)
ShiftL(x, s) == x * Pow2(s)
\* (x + (page_size - 1)) & ~(page_size - 1)
AlignUp(x, page_size) == ((x + (page_size - 1)) \div page_size) * page_size
\* the loop "for (log2 = 0; ((1 << log2) & page_size) == 0; log2++)"
RECURSIVE Log2From(_, _)
Log2From(page_size, n) ==
    IF (page_size \div Pow2(n)) % 2 = 1 THEN n ELSE Log2From(page_size, n + 1)
Log2(page_size) == Log2From(page_size, 0)

(***************************************************************************)
(* Backing files.  A file on disk is a set of extents: the bytes written   *)
(* by one backend write, or what later writes left of them.  A blob is     *)
(* user data (its bytes) or an encoded structure (kind and content).       *)
(***************************************************************************)
NoMeta == [none |-> 0]
DataBlob(bytes) == [kind |-> "data", bytes |-> bytes, meta |-> NoMeta]
MetaBlob(kind, meta) == [kind |-> kind, bytes |-> <<>>, meta |-> meta]
\* the value a read returns for a byte of an encoded structure
MetaByte == -1

NoSuchFile == [exists |-> FALSE, eof |-> 0, ext |-> <<>>]
EmptyFile == [exists |-> TRUE, eof |-> 0, ext |-> <<>>]

\* the part of extent e inside [lo, hi), which is not empty
ClipExtent(e, lo, hi) ==
    LET a == Max(e.addr, lo)
        b == Min(e.addr + e.size, hi)
    IN  IF e.blob.kind = "data"
        THEN [addr |-> a, size |-> b - a, off |-> 0,
              blob |-> DataBlob(SubSeq(e.blob.bytes, e.off + (a - e.addr) + 1,
                                       e.off + (b - e.addr)))]
        ELSE [addr |-> a, size |-> b - a, off |-> e.off + (a - e.addr),
              blob |-> e.blob]

ClipAll(ext, lo, hi) ==
    LET kept == SelectSeq(ext, LAMBDA e : e.addr < hi /\ e.addr + e.size > lo)
    IN  [i \in 1..Len(kept) |-> ClipExtent(kept[i], lo, hi)]

\* backend write of size bytes holding blob at addr
FileWrite(f, addr, size, blob) ==
    [exists |-> TRUE,
     eof |-> Max(f.eof, addr + size),
     ext |-> ClipAll(f.ext, 0, addr)
             \o <<[addr |-> addr, size |-> size, off |-> 0, blob |-> blob]>>
             \o ClipAll(f.ext, addr + size, Max(f.eof, addr + size))]

\* the byte at address a: zero in a hole and past the end of the file
ByteAt(f, a) ==
    LET hit == SelectSeq(f.ext, LAMBDA e : e.addr <= a /\ a < e.addr + e.size)
    IN  IF Len(hit) = 0 THEN 0
        ELSE IF hit[1].blob.kind = "data"
             THEN hit[1].blob.bytes[hit[1].off + (a - hit[1].addr) + 1]
             ELSE MetaByte

\* backend read of size bytes at addr
FileRead(f, addr, size) == [i \in 1..size |-> ByteAt(f, addr + i - 1)]

\* the extents that are an intact encoded structure of this kind at [addr, addr+size)
BlobsAt(f, addr, size, kind) ==
    SelectSeq(f.ext, LAMBDA e : /\ e.addr = addr
                                /\ e.size = size
                                /\ e.off = 0
                                /\ e.blob.kind = kind)
HasBlob(f, addr, size, kind) == Len(BlobsAt(f, addr, size, kind)) = 1
GetBlob(f, addr, size, kind) == BlobsAt(f, addr, size, kind)[1].blob.meta

(***************************************************************************)
(* Encoding and decoding.  An encoded structure is its fields as laid out  *)
(* in the buffer; a 64-bit field is two 32-bit halves.  The checksum of a   *)
(* byte range is modelled by the range's content (an ideal checksum).       *)
(***************************************************************************)
H5_checksum_fletcher32(content) == content
\* every integer of the model is below 2^31, so the high half is zero
UINT64ENCODE(v) == [lo32 |-> v, hi32 |-> 0]
UINT64DECODE(w) == w.lo32
\* decoding four bytes of an eight-byte field reads its low half only
UINT32DECODE(w) == w.lo32

\* in-memory structures as H5FL_CALLOC leaves them (H5FD__onion_open)
NullHeader ==
    [flags |-> {}, page_size |-> 0, origin_eof |-> 0,
     whole_history_addr |-> 0, whole_history_size |-> 0]
NullSummary == [n_revisions |-> 0, record_pointer_list |-> <<>>]
\* a calloc'ed record structure that starts at revision 1
NullRecord_RevisionOne ==
    [revision_id |-> 1, parent_revision_id |-> 0, logi_eof |-> 0,
     username_size |-> 0, username |-> "NULL",
     comment_size |-> 0, comment |-> "NULL",
     archival_index |-> [page_size_log2 |-> 0, n_entries |-> 0, list |-> <<>>]]

NullRecord ==
    [revision_id |-> 0, parent_revision_id |-> 0, logi_eof |-> 0,
     username_size |-> 0, username |-> "NULL",
     comment_size |-> 0, comment |-> "NULL",
     archival_index |-> [page_size_log2 |-> 0, n_entries |-> 0, list |-> <<>>]]

H5FD_onion_history_header_encode(header) ==
    [flags |-> header.flags,
     page_size |-> header.page_size,
     origin_eof |-> UINT64ENCODE(header.origin_eof),
     whole_history_addr |-> UINT64ENCODE(header.whole_history_addr),
     whole_history_size |-> UINT64ENCODE(header.whole_history_size)]

\* a decoder that drops the flags word
HeaderDecode_DropsFlags(buf) ==
    [flags |-> {},
     page_size |-> buf.page_size,
     origin_eof |-> UINT32DECODE(buf.origin_eof),
     whole_history_addr |-> UINT32DECODE(buf.whole_history_addr),
     whole_history_size |-> UINT32DECODE(buf.whole_history_size)]

H5FD_onion_history_header_decode(buf) ==
    [flags |-> buf.flags,
     page_size |-> buf.page_size,
     origin_eof |-> UINT32DECODE(buf.origin_eof),
     whole_history_addr |-> UINT32DECODE(buf.whole_history_addr),
     whole_history_size |-> UINT32DECODE(buf.whole_history_size)]

WholeHistoryEncodedSize(n_revisions) ==
    H5FD__ONION_ENCODED_SIZE_WHOLE_HISTORY
        + H5FD__ONION_ENCODED_SIZE_RECORD_POINTER * n_revisions

\* an encoder that lays the record pointers out last one first
WholeHistoryEncode_Reversed(summary) ==
    [n_revisions |-> UINT64ENCODE(summary.n_revisions),
     pointers |-> [i \in 1..summary.n_revisions |->
        LET rpp == summary.record_pointer_list[summary.n_revisions + 1 - i]
        IN  [phys_addr |-> UINT64ENCODE(rpp.phys_addr),
             record_size |-> UINT64ENCODE(rpp.record_size),
             checksum |-> rpp.checksum]]]

H5FD_onion_whole_history_encode(summary) ==
    [n_revisions |-> UINT64ENCODE(summary.n_revisions),
     pointers |-> [i \in 1..summary.n_revisions |->
        [phys_addr |-> UINT64ENCODE(summary.record_pointer_list[i].phys_addr),
         record_size |-> UINT64ENCODE(summary.record_pointer_list[i].record_size),
         checksum |-> summary.record_pointer_list[i].checksum]]]

\* one pass of the decoder: the first pass (n_revisions = 0 in the structure)
\* takes the count, the later pass fills the list; size 0 reports an error
H5FD_onion_whole_history_decode(buf, summary) ==
    LET n_revisions == UINT64DECODE(buf.n_revisions)
    IN  IF summary.n_revisions = 0
        THEN [size |-> WholeHistoryEncodedSize(n_revisions),
              summary |-> [summary EXCEPT !.n_revisions = n_revisions]]
        ELSE IF summary.n_revisions # n_revisions
        THEN [size |-> 0, summary |-> summary]
        ELSE [size |-> WholeHistoryEncodedSize(n_revisions),
              summary |-> [summary EXCEPT !.record_pointer_list =
                 [i \in 1..n_revisions |->
                    [phys_addr |-> UINT64DECODE(buf.pointers[i].phys_addr),
                     record_size |-> UINT64DECODE(buf.pointers[i].record_size),
                     checksum |-> buf.pointers[i].checksum]]]]

RevisionRecordEncodedSize(n_entries, username_size, comment_size) ==
    H5FD__ONION_ENCODED_SIZE_REVISION_RECORD
        + H5FD__ONION_ENCODED_SIZE_INDEX_ENTRY * n_entries
        + username_size + comment_size

H5FD_onion_revision_record_encode(record) ==
    LET aix == record.archival_index
    IN  [revision_id |-> UINT64ENCODE(record.revision_id),
         parent_revision_id |-> UINT64ENCODE(record.parent_revision_id),
         logi_eof |-> UINT64ENCODE(record.logi_eof),
         page_size |-> Pow2(aix.page_size_log2),
         n_entries |-> UINT64ENCODE(aix.n_entries),
         username_size |-> record.username_size,
         comment_size |-> record.comment_size,
         entries |-> [i \in 1..aix.n_entries |->
            LET logi_addr == ShiftL(aix.list[i].logi_page, aix.page_size_log2)
            IN  [logi_addr |-> UINT64ENCODE(logi_addr),
                 phys_addr |-> UINT64ENCODE(aix.list[i].phys_addr),
                 sum |-> H5_checksum_fletcher32(
                            <<logi_addr, aix.list[i].phys_addr>>)]],
         username |-> IF record.username_size > 0 THEN record.username ELSE "",
         comment |-> IF record.comment_size > 0 THEN record.comment ELSE ""]

\* the entries of an encoded record whose address is not page aligned or
\* whose checksum does not match
BadEntries(buf) ==
    {i \in 1..Len(buf.entries) :
        \/ UINT64DECODE(buf.entries[i].logi_addr) % buf.page_size # 0
        \/ buf.entries[i].sum # H5_checksum_fletcher32(
                <<UINT64DECODE(buf.entries[i].logi_addr),
                  UINT64DECODE(buf.entries[i].phys_addr)>>)}

\* one pass of the decoder over the structure as the caller left it
H5FD_onion_revision_record_decode(buf, record) ==
    LET n_entries == UINT64DECODE(buf.n_entries)
        page_size_log2 == Log2(buf.page_size)
        first_pass == record.archival_index.n_entries = 0
        fail == [size |-> 0, record |-> record]
        list == IF first_pass THEN record.archival_index.list
                ELSE [i \in 1..n_entries |->
                        [logi_page |-> ShiftR(UINT64DECODE(buf.entries[i].logi_addr),
                                              page_size_log2),
                         phys_addr |-> UINT64DECODE(buf.entries[i].phys_addr)]]
    IN  IF buf.page_size = 0 \/ buf.page_size # Pow2(page_size_log2) THEN fail
        ELSE IF ~first_pass /\ n_entries # record.archival_index.n_entries THEN fail
        ELSE IF ~first_pass /\ BadEntries(buf) # {} THEN fail
        ELSE IF record.username_size = 0 /\ record.username # "NULL" THEN fail
        ELSE IF record.username_size # 0 /\ record.username = "NULL" THEN fail
        ELSE IF record.comment_size = 0 /\ record.comment # "NULL" THEN fail
        ELSE IF record.comment_size # 0 /\ record.comment = "NULL" THEN fail
        ELSE [size |-> RevisionRecordEncodedSize(n_entries, buf.username_size,
                                                 buf.comment_size),
              record |->
                [revision_id |-> UINT64DECODE(buf.revision_id),
                 parent_revision_id |-> UINT64DECODE(buf.parent_revision_id),
                 logi_eof |-> UINT64DECODE(buf.logi_eof),
                 username_size |-> IF record.username_size = 0
                                   THEN buf.username_size
                                   ELSE record.username_size,
                 username |-> IF record.username_size = 0 THEN record.username
                              ELSE buf.username,
                 comment_size |-> IF record.comment_size = 0
                                  THEN buf.comment_size
                                  ELSE record.comment_size,
                 comment |-> IF record.comment_size = 0 THEN record.comment
                             ELSE buf.comment,
                 archival_index |-> [page_size_log2 |-> page_size_log2,
                                     n_entries |-> n_entries,
                                     list |-> list]]]

(***************************************************************************)
(* Archival index: a list of [logi_page, phys_addr] searched by bisection. *)
(***************************************************************************)
NoEntry == [logi_page |-> 0, phys_addr |-> 0]

\* the "while (range > 0)" loop and the test after it; list is 1-based here,
\* low, high and n are the 0-based indices of the code
RECURSIVE ArchivalFindLoop(_, _, _, _, _)
ArchivalFindLoop(list, logi_page, low, high, n) ==
    IF high - low > 0
    THEN LET m == low + ((high - low) \div 2)
             x == list[m + 1]
         IN  IF x.logi_page = logi_page
             THEN [ret |-> 1, entry |-> x]
             ELSE IF x.logi_page < logi_page
             THEN ArchivalFindLoop(list, logi_page,
                                   IF m = high THEN high ELSE m + 1, high, m)
             ELSE ArchivalFindLoop(list, logi_page,
                                   low, IF m = low THEN low ELSE m - 1, m)
    ELSE IF (n # low \/ n # high) /\ list[low + 1].logi_page = logi_page
         THEN [ret |-> 1, entry |-> list[low + 1]]
         ELSE [ret |-> 0, entry |-> NoEntry]

H5FD_onion_archival_index_find(aix, logi_page) ==
    IF \/ aix.n_entries = 0
       \/ logi_page > aix.list[aix.n_entries].logi_page
       \/ logi_page < aix.list[1].logi_page
    THEN [ret |-> 0, entry |-> NoEntry]
    ELSE ArchivalFindLoop(aix.list, logi_page, 0, aix.n_entries - 1, 0)

H5FD_onion_archival_index_is_valid(aix) ==
    \A i \in 1..(aix.n_entries - 1) :
        aix.list[i + 1].logi_page > aix.list[i].logi_page

(***************************************************************************)
(* Revision index: a hash table of chains keyed by logi_page modulo the    *)
(* table size.  Only the populated buckets are kept in hash_table.         *)
(***************************************************************************)
EmptyTable == [k \in {} |-> <<>>]
NullRevIndex ==
    [n_entries |-> 0, page_size_log2 |-> 0, hash_table_size |-> 0,
     hash_table_size_log2 |-> 0, hash_table_n_keys_populated |-> 0,
     hash_table |-> EmptyTable]

Bucket(table, key) == IF key \in DOMAIN table THEN table[key] ELSE <<>>
SetBucket(table, key, chain) ==
    [k \in (DOMAIN table) \cup {key} |-> IF k = key THEN chain ELSE table[k]]

\* the members of S between lo and hi, in ascending order
RECURSIVE SortedRange(_, _, _)
SortedRange(S, lo, hi) ==
    IF lo = hi
    THEN IF lo \in S THEN <<lo>> ELSE <<>>
    ELSE SortedRange(S, lo, (lo + hi) \div 2)
         \o SortedRange(S, (lo + hi) \div 2 + 1, hi)
SortedKeys(S) ==
    IF S = {} THEN <<>>
    ELSE SortedRange(S, CHOOSE x \in S : \A y \in S : x <= y,
                        CHOOSE x \in S : \A y \in S : x >= y)

\* the nodes of the table in the order "for each bucket, along its chain"
RECURSIVE ChainNodes(_, _)
ChainNodes(table, keys) ==
    IF keys = <<>> THEN <<>>
    ELSE IF Len(keys) = 1
    THEN [j \in 1..Len(table[keys[1]]) |->
            [bucket |-> keys[1], entry |-> table[keys[1]][j]]]
    ELSE ChainNodes(table, SubSeq(keys, 1, Len(keys) \div 2))
         \o ChainNodes(table, SubSeq(keys, Len(keys) \div 2 + 1, Len(keys)))
TableNodes(table) == ChainNodes(table, SortedKeys(DOMAIN table))

H5FD_onion_revision_index_init(page_size) ==
    [n_entries |-> 0,
     page_size_log2 |-> Log2(page_size),
     hash_table_size |-> Pow2(H5FD__ONION_REVISION_INDEX_STARTING_SIZE_LOG2),
     hash_table_size_log2 |-> H5FD__ONION_REVISION_INDEX_STARTING_SIZE_LOG2,
     hash_table_n_keys_populated |-> 0,
     hash_table |-> EmptyTable]

\* re-hash the popped nodes one by one: a node whose new bucket is taken is
\* pushed on the front of new_table[i], i being the bucket it came from
RECURSIVE Rehash(_, _, _, _)
Rehash(nodes, new_size, new_table, new_n_keys_populated) ==
    IF nodes = <<>>
    THEN [table |-> new_table, n_keys_populated |-> new_n_keys_populated]
    ELSE LET node == Head(nodes)
             key == node.entry.logi_page % new_size
         IN  IF key \notin DOMAIN new_table
             THEN Rehash(Tail(nodes), new_size,
                         SetBucket(new_table, key, <<node.entry>>),
                         new_n_keys_populated + 1)
             ELSE Rehash(Tail(nodes), new_size,
                         SetBucket(new_table, node.bucket,
                                   <<node.entry>> \o Bucket(new_table, node.bucket)),
                         new_n_keys_populated)

\* new_n_keys_populated summed over the old buckets keys[lo..hi]
RECURSIVE RehashedKeys(_, _, _, _)
RehashedKeys(parts, keys, lo, hi) ==
    IF lo > hi THEN 0
    ELSE IF lo = hi THEN parts[keys[lo]].n_keys_populated
    ELSE RehashedKeys(parts, keys, lo, (lo + hi) \div 2)
         + RehashedKeys(parts, keys, (lo + hi) \div 2 + 1, hi)

\* the nodes of old bucket i go to new_table[i] or new_table[i + old size]
\* and to no other bucket, so the loop over the old buckets is taken one
\* bucket at a time and the new table is put together from the parts
H5FD__onion_revision_index_resize(rix) ==
    LET new_size_log2 == rix.hash_table_size_log2 + 1
        new_size == Pow2(new_size_log2)
        parts == [i \in DOMAIN rix.hash_table |->
                    Rehash(ChainNodes(rix.hash_table, <<i>>), new_size,
                           EmptyTable, 0)]
        new_keys == UNION {DOMAIN parts[i].table : i \in DOMAIN rix.hash_table}
        old_keys == SortedKeys(DOMAIN rix.hash_table)
    IN  [rix EXCEPT !.hash_table_size = new_size,
                    !.hash_table_size_log2 = new_size_log2,
                    !.hash_table_n_keys_populated =
                        RehashedKeys(parts, old_keys, 1, Len(old_keys)),
                    !.hash_table =
                        [k \in new_keys |->
                            parts[k % rix.hash_table_size].table[k]]]

\* the insertion proper, into the index r as the resize check left it
InsertEntry(r, entry) ==
    LET key == entry.logi_page % r.hash_table_size
        chain == Bucket(r.hash_table, key)
        same == {j \in 1..Len(chain) : chain[j].logi_page = entry.logi_page}
        first == CHOOSE j \in same : \A k \in same : j <= k
    IN  IF chain = <<>>
        THEN [ret |-> "SUCCEED",
              rix |-> [r EXCEPT
                 !.hash_table = SetBucket(r.hash_table, key, <<entry>>),
                 !.hash_table_n_keys_populated = @ + 1,
                 !.n_entries = @ + 1]]
        ELSE IF same = {}
        THEN [ret |-> "SUCCEED",
              rix |-> [r EXCEPT
                 !.hash_table = SetBucket(r.hash_table, key, Append(chain, entry)),
                 !.n_entries = @ + 1]]
        ELSE IF chain[first].phys_addr # entry.phys_addr
        THEN [ret |-> "FAIL", rix |-> r]
        ELSE [ret |-> "SUCCEED",
              rix |-> [r EXCEPT
                 !.hash_table = SetBucket(r.hash_table, key,
                                          [chain EXCEPT ![first] = entry])]]

H5FD_onion_revision_index_insert(rix, entry) ==
    InsertEntry(IF \/ rix.n_entries >= rix.hash_table_size * 2
                   \/ rix.hash_table_n_keys_populated >= rix.hash_table_size \div 2
                THEN H5FD__onion_revision_index_resize(rix)
                ELSE rix,
                entry)

H5FD_onion_revision_index_find(rix, logi_page) ==
    LET key == logi_page % rix.hash_table_size
        chain == Bucket(rix.hash_table, key)
        same == {j \in 1..Len(chain) : chain[j].logi_page = logi_page}
    IN  IF same = {}
        THEN [ret |-> 0, entry |-> NoEntry]
        ELSE [ret |-> 1,
              entry |-> chain[CHOOSE j \in same : \A k \in same : j <= k]]

(***************************************************************************)
(* Merge of the revision index into the archival index at commit.          *)
(***************************************************************************)
\* qsort with H5FD__onion_archival_index_list_sort_compar: every ordering of
\* the list by ascending logi_page (entries that compare equal may come out
\* in any order)
RECURSIVE QSortOutcomes(_)
QSortOutcomes(list) ==
    IF list = <<>> THEN {<<>>}
    ELSE LET least == {i \in 1..Len(list) :
                          \A j \in 1..Len(list) :
                              list[i].logi_page <= list[j].logi_page}
             Without(i) == SubSeq(list, 1, i - 1) \o SubSeq(list, i + 1, Len(list))
         IN  UNION {{<<list[i]>> \o rest : rest \in QSortOutcomes(Without(i))}
                        : i \in least}

\* the archival lists a successful merge may leave
MergeOutcomes(rix, aix) ==
    IF rix.n_entries = 0 THEN {aix}
    ELSE LET nodes == TableNodes(rix.hash_table)
             live == [i \in 1..Len(nodes) |-> nodes[i].entry]
             KeptFor(new_list) ==
                 SelectSeq(aix.list, LAMBDA e :
                     H5FD_onion_archival_index_find(
                         [page_size_log2 |-> aix.page_size_log2,
                          n_entries |-> Len(new_list),
                          list |-> new_list], e.logi_page).ret = 0)
         IN  UNION {{[aix EXCEPT !.list = merged, !.n_entries = Len(merged)]
                        : merged \in QSortOutcomes(new_list \o KeptFor(new_list))}
                    : new_list \in QSortOutcomes(live)}

\* FAIL on a page-size mismatch, otherwise the lists the merge may leave
H5FD_onion_merge_revision_index_into_archival_index(rix, aix) ==
    IF aix.page_size_log2 # rix.page_size_log2
    THEN {[ret |-> "FAIL", aix |-> aix]}
    ELSE {[ret |-> "SUCCEED", aix |-> a] : a \in MergeOutcomes(rix, aix)}

(***************************************************************************)
(* State.                                                                   *)
(***************************************************************************)
VARIABLES
    canon,      \* the canonical file on disk
    onion,      \* the onion (history) file on disk
    recov,      \* the recovery file on disk
    file,       \* the driver handle (H5FD_onion_t) of the process
    pc,         \* where the process is: closed, open, inside write or close
    wr,         \* the write call in progress (its loop variables)
    rd,         \* the last read call and what it returned
    io,         \* the backend calls issued by the last step
    ret,        \* the last driver call that returned, and its result
    sess,       \* the files as they were when the session opened
    logical,    \* the bytes the logical file should hold in this session
    revs,       \* the logical file as of each committed revision
    nwrites     \* number of write calls issued so far

vars == <<canon, onion, recov, file, pc, wr, rd, io, ret, sess, logical,
          revs, nwrites>>

\* the logical address space used by the callers of the driver
MaxPageSize == CHOOSE p \in FaPageSizes : \A q \in FaPageSizes : q <= p
LogiSpace == LogiPages * MaxPageSize
Zeros(n) == [i \in 1..n |-> 0]

\* one backend call, for the io log
IoRead(f, addr, size) == [f |-> f, op |-> "read", addr |-> addr, size |-> size]
IoWrite(f, addr, size) == [f |-> f, op |-> "write", addr |-> addr, size |-> size]
IoOpen(f, mode) == [f |-> f, op |-> mode, addr |-> 0, size |-> 0]
IoUnlink(f) == [f |-> f, op |-> "unlink", addr |-> 0, size |-> 0]

NullFa == [page_size |-> 0, revision_id |-> 0, creation_flags |-> {},
           comment |-> ""]
\* the handle as H5FL_CALLOC leaves it; open is FALSE when no handle exists
NullFile ==
    [fa |-> NullFa, is_open_rw |-> FALSE, page_align_history |-> FALSE,
     header |-> NullHeader, summary |-> NullSummary, rev_record |-> NullRecord,
     rev_index |-> NullRevIndex, history_eof |-> 0, origin_eof |-> 0,
     logi_eoa |-> 0, logi_eof |-> 0, onion_eoa |-> 0]

NoWrite == [offset |-> 0, len |-> 0, buf |-> <<>>, i |-> 0, n_pages |-> 0,
            bytes_to_write |-> 0, pos |-> 0]
NoRead == [valid |-> FALSE, offset |-> 0, len |-> 0, ret |-> "SUCCEED",
           buf |-> <<>>]
NoSess == [existing |-> FALSE, rw |-> FALSE, E |-> 0, onion0 |-> NoSuchFile,
           canon0 |-> NoSuchFile, recov0 |-> NoSuchFile,
           summary0 |-> NullSummary, rev |-> 0, aix0 |-> <<>>, written |-> {},
           heof0 |-> 0, eof0 |-> 0, wend |-> 0, created |-> FALSE]

\* a file that was written without the driver
PlainFile ==
    FileWrite(EmptyFile, 0, LogiSpace, DataBlob([i \in 1..LogiSpace |-> 100 + i]))

Init ==
    /\ canon \in {NoSuchFile, PlainFile}
    /\ onion = NoSuchFile
    /\ recov = NoSuchFile
    /\ file = NullFile
    /\ pc = "closed"
    /\ wr = NoWrite
    /\ rd = NoRead
    /\ io = <<>>
    /\ ret = [op |-> "none", status |-> "SUCCEED"]
    /\ sess = NoSess
    /\ logical = Zeros(LogiSpace)
    /\ revs = <<>>
    /\ nwrites = 0

(***************************************************************************)
(* Reading the history back from the onion file.                            *)
(***************************************************************************)
\* H5FD__onion_injest_history_header: the decoded header, or ok = FALSE
H5FD__onion_injest_history_header(raw_file) ==
    IF raw_file.eof < H5FD__ONION_ENCODED_SIZE_HEADER
    THEN [ok |-> FALSE, header |-> NullHeader, io |-> <<>>]
    ELSE LET rdio == <<IoRead("onion", 0, H5FD__ONION_ENCODED_SIZE_HEADER)>>
         IN  IF HasBlob(raw_file, 0, H5FD__ONION_ENCODED_SIZE_HEADER, "hdr")
             THEN [ok |-> TRUE,
                   header |-> H5FD_onion_history_header_decode(
                       GetBlob(raw_file, 0, H5FD__ONION_ENCODED_SIZE_HEADER, "hdr")),
                   io |-> rdio]
             ELSE [ok |-> FALSE, header |-> NullHeader, io |-> rdio]

\* H5FD__onion_injest_whole_history: both decoding passes over the buffer
H5FD__onion_injest_whole_history(whs_out, raw_file, addr, size) ==
    IF raw_file.eof < addr + size
    THEN [ok |-> FALSE, summary |-> whs_out, io |-> <<>>]
    ELSE LET rdio == <<IoRead("onion", addr, size)>>
             buf == GetBlob(raw_file, addr, size, "whs")
             first == H5FD_onion_whole_history_decode(buf, whs_out)
             final == H5FD_onion_whole_history_decode(buf, first.summary)
         IN  IF ~HasBlob(raw_file, addr, size, "whs")
             THEN [ok |-> FALSE, summary |-> whs_out, io |-> rdio]
             ELSE IF first.size # size \/ final.size # size
             THEN [ok |-> FALSE, summary |-> whs_out, io |-> rdio]
             ELSE [ok |-> TRUE, summary |-> final.summary, io |-> rdio]

\* read and decode (one pass) the record a pointer designates
ReadRecord(raw_file, eoa, rpp, r_out) ==
    LET rdio == <<IoRead("onion", rpp.phys_addr, rpp.record_size)>>
        d == H5FD_onion_revision_record_decode(
                 GetBlob(raw_file, rpp.phys_addr, rpp.record_size, "rec"), r_out)
    IN  IF rpp.phys_addr + rpp.record_size > eoa
        THEN [ok |-> FALSE, record |-> r_out, io |-> <<>>]
        ELSE IF ~HasBlob(raw_file, rpp.phys_addr, rpp.record_size, "rec")
        THEN [ok |-> FALSE, record |-> r_out, io |-> rdio]
        ELSE IF d.size # rpp.record_size
        THEN [ok |-> FALSE, record |-> r_out, io |-> rdio]
        ELSE [ok |-> TRUE, record |-> d.record, io |-> rdio]

\* the bisection over the record pointers; n is the index (0-based) of the
\* record last decoded into r_out
RECURSIVE InjestSearch(_, _, _, _, _, _, _, _)
InjestSearch(raw_file, eoa, list, revision_id, low, high, r_out, ios) ==
    IF high - low > 0
    THEN LET n == ((high - low) \div 2) + low
             r == ReadRecord(raw_file, eoa, list[n + 1], r_out)
             reset == [r.record EXCEPT !.archival_index.n_entries = 0,
                                       !.comment_size = 0,
                                       !.username_size = 0]
         IN  IF ~r.ok
             THEN [ok |-> FALSE, n |-> n, record |-> r_out, io |-> ios \o r.io]
             ELSE IF revision_id = r.record.revision_id
             THEN [ok |-> TRUE, n |-> n, record |-> r.record, io |-> ios \o r.io]
             ELSE IF r.record.revision_id < revision_id
             THEN InjestSearch(raw_file, eoa, list, revision_id,
                               IF n = high THEN high ELSE n + 1, high,
                               reset, ios \o r.io)
             ELSE InjestSearch(raw_file, eoa, list, revision_id,
                               low, IF n = low THEN low ELSE n - 1,
                               reset, ios \o r.io)
    ELSE LET r == ReadRecord(raw_file, eoa, list[low + 1], r_out)
         IN  IF ~r.ok \/ revision_id # r.record.revision_id
             THEN [ok |-> FALSE, n |-> low, record |-> r_out, io |-> ios \o r.io]
             ELSE [ok |-> TRUE, n |-> low, record |-> r.record, io |-> ios \o r.io]

\* H5FD__onion_injest_revision_record
H5FD__onion_injest_revision_record(r_out, raw_file, eoa, whs, revision_id) ==
    LET high == whs.n_revisions - 1
        last == whs.record_pointer_list[high + 1]
        found == InjestSearch(raw_file, eoa, whs.record_pointer_list,
                              revision_id, 0, high, r_out, <<>>)
        alloc == [found.record EXCEPT
                     !.username = "",
                     !.comment = IF found.record.comment_size > 0
                                 THEN "" ELSE @]
        final == H5FD_onion_revision_record_decode(
                     GetBlob(raw_file, whs.record_pointer_list[found.n + 1].phys_addr,
                             whs.record_pointer_list[found.n + 1].record_size, "rec"),
                     alloc)
    IN  IF raw_file.eof < last.phys_addr + last.record_size
        THEN [ok |-> FALSE, record |-> r_out, io |-> <<>>]
        ELSE IF ~found.ok
        THEN [ok |-> FALSE, record |-> r_out, io |-> found.io]
        ELSE IF final.size # whs.record_pointer_list[found.n + 1].record_size
        THEN [ok |-> FALSE, record |-> r_out, io |-> found.io]
        ELSE [ok |-> TRUE, record |-> final.record, io |-> found.io]

(***************************************************************************)
(* Opening.                                                                 *)
(***************************************************************************)
\* the flags H5FD__onion_create_truncate_onion gives a new header
CreateHeaderFlags(creation_flags) ==
    {H5FD__ONION_HEADER_FLAG_WRITE_LOCK}
        \cup (creation_flags \cap {H5FD__ONION_HEADER_FLAG_DIVERGENT_HISTORY,
                                  H5FD__ONION_HEADER_FLAG_PAGE_ALIGNMENT})

\* H5FD__onion_set_userinfo_in_record
H5FD__onion_set_userinfo_in_record(rec) ==
    [rec EXCEPT !.username_size = pw_name_size, !.username = "u"]

\* "Copy comment from FAPL info, if one is given"
CopyComment(rec, comment) ==
    IF comment # ""
    THEN [rec EXCEPT !.comment = comment, !.comment_size = Len(comment) + 1]
    ELSE rec

\* the recovery file as H5FD__onion_whole_history_write leaves it: the
\* encoded whole-history at offset 0 of the new file
RecoveryImage_Empty(summary) ==
    FileWrite(EmptyFile, 0, WholeHistoryEncodedSize(0),
              MetaBlob("whs", H5FD_onion_whole_history_encode(NullSummary)))

RecoveryImage(summary) ==
    FileWrite(EmptyFile, 0, WholeHistoryEncodedSize(summary.n_revisions),
              MetaBlob("whs", H5FD_onion_whole_history_encode(summary)))

\* a history that restarts right after the header
OpenHistoryEof_AfterHeader(eoa, page_align_history, page_size) ==
    H5FD__ONION_ENCODED_SIZE_HEADER

\* history_eof as the end of H5FD__onion_open computes it
OpenHistoryEof(eoa, page_align_history, page_size) ==
    IF page_align_history THEN AlignUp(eoa, page_size) ELSE eoa

\* H5FD__onion_open with H5F_ACC_CREAT | H5F_ACC_TRUNC:
\* H5FD__onion_create_truncate_onion and the tail of open
OpenCreate(page_size, creation_flags, comment) ==
    /\ pc = "closed"
    /\ LET align == H5FD__ONION_HEADER_FLAG_PAGE_ALIGNMENT \in creation_flags
           header == [NullHeader EXCEPT
                         !.flags = CreateHeaderFlags(creation_flags),
                         !.page_size = page_size,
                         !.origin_eof = 0,
                         !.whole_history_size =
                             H5FD__ONION_ENCODED_SIZE_WHOLE_HISTORY]
           rec == CopyComment(
                      H5FD__onion_set_userinfo_in_record(
                          [NullRecord EXCEPT
                              !.archival_index.page_size_log2 = Log2(page_size)]),
                      comment)
       IN  /\ canon' = FileWrite(EmptyFile, 0, Len(ONIONEOF), DataBlob(ONIONEOF))
           /\ recov' = RecoveryImage(NullSummary)
           /\ onion' = FileWrite(EmptyFile, 0, H5FD__ONION_ENCODED_SIZE_HEADER,
                           MetaBlob("hdr", H5FD_onion_history_header_encode(header)))
           /\ file' = [NullFile EXCEPT
                 !.fa = [page_size |-> page_size,
                         revision_id |-> H5FD_ONION_FAPL_INFO_REVISION_ID_LATEST,
                         creation_flags |-> creation_flags,
                         comment |-> comment],
                 !.is_open_rw = TRUE,
                 !.page_align_history = align,
                 !.header = header,
                 !.rev_record = rec,
                 !.rev_index = H5FD_onion_revision_index_init(page_size),
                 !.origin_eof = header.origin_eof,
                 !.logi_eof = rec.logi_eof,
                 !.logi_eoa = 0,
                 !.onion_eoa = H5FD__ONION_ENCODED_SIZE_HEADER,
                 !.history_eof = OpenHistoryEof(H5FD__ONION_ENCODED_SIZE_HEADER,
                                                align, page_size)]
           /\ io' = <<IoOpen("canon", "create"), IoOpen("onion", "create"),
                      IoOpen("recov", "create"),
                      IoWrite("canon", 0, Len(ONIONEOF)),
                      IoWrite("recov", 0, H5FD__ONION_ENCODED_SIZE_WHOLE_HISTORY),
                      IoWrite("onion", 0, H5FD__ONION_ENCODED_SIZE_HEADER)>>
           /\ sess' = [NoSess EXCEPT !.rw = TRUE, !.created = TRUE,
                                     !.onion0 = onion',
                                     !.canon0 = canon', !.recov0 = recov',
                                     !.heof0 = file'.history_eof]
    /\ pc' = "open"
    /\ ret' = [op |-> "open", status |-> "SUCCEED"]
    /\ logical' = Zeros(LogiSpace)
    /\ revs' = <<>>
    /\ rd' = NoRead
    /\ UNCHANGED <<wr, nwrites>>

\* the points at which H5FD__onion_open_rw and the tail of open can fail
OpenRwFaults == {"none", "recov_open", "recov_write", "header_write", "alloc"}

\* an open that fails: no handle is returned, the files stay as new_onion and
\* new_recov
OpenFails(why, new_onion, new_recov, ios) ==
    /\ pc' = "closed"
    /\ file' = NullFile
    /\ onion' = new_onion
    /\ recov' = new_recov
    /\ io' = ios
    /\ ret' = [op |-> "open", status |-> why]
    /\ rd' = NoRead
    /\ UNCHANGED <<canon, wr, sess, logical, revs, nwrites>>

\* H5FD__onion_open without H5F_ACC_CREAT | H5F_ACC_TRUNC from the point
\* where the onion file on (found, or just made) is open: opens are the
\* backend opens made so far, rc the recovery file as it is, r0 the revision
\* record structure before a record is read into it; rdwr is H5F_ACC_RDWR,
\* fault the step of the read/write part that fails
OpenHistory(on, rc, opens, r0, existing, rdwr, page_size, creation_flags, revision_id, comment, fault) ==
    /\ pc = "closed"
    /\ rdwr \/ fault = "none"
    /\ rdwr => Len(revs) < MaxRevisions
    /\ \E h \in {H5FD__onion_injest_history_header(on)} :
       \E w \in {H5FD__onion_injest_whole_history(NullSummary, on,
                    h.header.whole_history_addr, h.header.whole_history_size)} :
       \E r \in {IF w.summary.n_revisions > 0
                 THEN H5FD__onion_injest_revision_record(
                          r0, on,
                          h.header.whole_history_addr + h.header.whole_history_size,
                          w.summary,
                          Min(revision_id, w.summary.n_revisions - 1))
                 ELSE [ok |-> TRUE,
                       record |-> r0,
                       io |-> <<>>]} :
       LET eoa == h.header.whole_history_addr + h.header.whole_history_size
           target == Min(revision_id, w.summary.n_revisions - 1)
           ios == opens \o h.io \o w.io \o r.io
           align == H5FD__ONION_HEADER_FLAG_PAGE_ALIGNMENT \in h.header.flags
           \* H5FD__onion_open_rw
           whs_size == WholeHistoryEncodedSize(w.summary.n_revisions)
           recov_w == RecoveryImage(w.summary)
           locked == [h.header EXCEPT
                         !.flags = @ \cup {H5FD__ONION_HEADER_FLAG_WRITE_LOCK}]
           onion_w == FileWrite(on, 0, H5FD__ONION_ENCODED_SIZE_HEADER,
                          MetaBlob("hdr", H5FD_onion_history_header_encode(locked)))
           ios_rw == ios \o <<IoOpen("recov", "create"), IoWrite("recov", 0, whs_size),
                              IoWrite("onion", 0, H5FD__ONION_ENCODED_SIZE_HEADER)>>
           rec_rw == [r.record EXCEPT !.parent_revision_id = r.record.revision_id,
                                      !.revision_id = r.record.revision_id + 1]
       IN  IF ~canon.exists
           THEN OpenFails("no_canonical", on, rc, <<>>)
           ELSE IF ~h.ok
           THEN OpenFails("bad_header", on, rc, opens \o h.io)
           ELSE IF H5FD__ONION_HEADER_FLAG_WRITE_LOCK \in h.header.flags
           THEN OpenFails("write_locked", on, rc, opens \o h.io)
           ELSE IF ~w.ok
           THEN OpenFails("bad_whole_history", on, rc, opens \o h.io \o w.io)
           ELSE IF /\ revision_id >= w.summary.n_revisions
                   /\ revision_id # H5FD_ONION_FAPL_INFO_REVISION_ID_LATEST
           THEN OpenFails("revision_out_of_range", on, rc,
                          opens \o h.io \o w.io)
           ELSE IF ~r.ok
           THEN OpenFails("bad_revision_record", on, rc, ios)
           ELSE IF rdwr /\ fault = "recov_open"
           THEN OpenFails("fault_recov_open", on, rc, ios)
           ELSE IF rdwr /\ fault = "recov_write"
           THEN OpenFails("fault_recov_write", on, EmptyFile,
                          ios \o <<IoOpen("recov", "create")>>)
           ELSE IF rdwr /\ whs_size # h.header.whole_history_size
           THEN OpenFails("whole_history_size", on, recov_w,
                          ios \o <<IoOpen("recov", "create"),
                                   IoWrite("recov", 0, whs_size)>>)
           ELSE IF rdwr /\ fault = "header_write"
           THEN OpenFails("fault_header_write", on, recov_w,
                          ios \o <<IoOpen("recov", "create"),
                                   IoWrite("recov", 0, whs_size)>>)
           ELSE IF rdwr /\ fault = "alloc"
           THEN OpenFails("fault_alloc", onion_w, recov_w, ios_rw)
           ELSE
           /\ pc' = "open"
           /\ onion' = IF rdwr THEN onion_w ELSE on
           /\ recov' = IF rdwr THEN recov_w ELSE rc
           /\ io' = IF rdwr THEN ios_rw ELSE ios
           /\ file' = [NullFile EXCEPT
                 !.fa = [page_size |-> page_size, revision_id |-> revision_id,
                         creation_flags |-> creation_flags, comment |-> comment],
                 !.is_open_rw = rdwr,
                 !.page_align_history = align,
                 !.header = IF rdwr THEN locked ELSE h.header,
                 !.summary = w.summary,
                 !.rev_record = IF rdwr THEN CopyComment(rec_rw, comment)
                                ELSE r.record,
                 !.rev_index = IF rdwr
                               THEN H5FD_onion_revision_index_init(page_size)
                               ELSE NullRevIndex,
                 !.origin_eof = h.header.origin_eof,
                 !.logi_eof = r.record.logi_eof,
                 !.logi_eoa = 0,
                 !.onion_eoa = eoa,
                 !.history_eof = OpenHistoryEof(eoa, align, h.header.page_size)]
           /\ ret' = [op |-> "open", status |-> "SUCCEED"]
           /\ sess' = [existing |-> existing, rw |-> rdwr, E |-> on.eof,
                       onion0 |-> on, canon0 |-> canon, recov0 |-> recov',
                       summary0 |-> w.summary, rev |-> target,
                       aix0 |-> r.record.archival_index.list, written |-> {},
                       heof0 |-> OpenHistoryEof(eoa, align, h.header.page_size),
                       eof0 |-> r.record.logi_eof, wend |-> 0,
                       created |-> FALSE]
           /\ logical' = IF target + 1 \in DOMAIN revs
                         THEN revs[target + 1].bytes ELSE Zeros(LogiSpace)
           /\ rd' = NoRead
           /\ UNCHANGED <<canon, wr, revs, nwrites>>

\* the record structure of a new handle: page_size_log2 is set, the rest is
\* as H5FL_CALLOC left it
OpenRecord(page_size) ==
    [NullRecord EXCEPT !.archival_index.page_size_log2 = Log2(page_size)]

\* H5FD__onion_open without H5F_ACC_CREAT | H5F_ACC_TRUNC when the onion
\* file exists, or when the canonical file does not
OpenExisting(rdwr, page_size, revision_id, comment, fault) ==
    /\ canon.exists => onion.exists
    /\ OpenHistory(onion, recov,
                   <<IoOpen("canon", "open"), IoOpen("onion", "open")>>,
                   OpenRecord(page_size), TRUE, rdwr, page_size, {},
                   revision_id, comment, fault)

\* the onion file a read/write open makes when it finds none: a header
\* without the write lock that places the whole-history one byte after the
\* header, and the whole-history of no revisions written there
FabricatedOnion(page_size, creation_flags) ==
    FileWrite(
        FileWrite(EmptyFile, 0, H5FD__ONION_ENCODED_SIZE_HEADER,
            MetaBlob("hdr", H5FD_onion_history_header_encode(
                [NullHeader EXCEPT
                    !.flags = creation_flags
                        \cap {H5FD__ONION_HEADER_FLAG_DIVERGENT_HISTORY,
                              H5FD__ONION_HEADER_FLAG_PAGE_ALIGNMENT},
                    !.page_size = page_size,
                    !.whole_history_size = H5FD__ONION_ENCODED_SIZE_WHOLE_HISTORY,
                    !.whole_history_addr = H5FD__ONION_ENCODED_SIZE_HEADER + 1]))),
        H5FD__ONION_ENCODED_SIZE_HEADER + 1,
        H5FD__ONION_ENCODED_SIZE_WHOLE_HISTORY,
        MetaBlob("whs", H5FD_onion_whole_history_encode(NullSummary)))

\* H5FD__onion_open without H5F_ACC_CREAT | H5F_ACC_TRUNC when the canonical
\* file exists and the onion file does not: refused read-only; read/write,
\* the onion and recovery files are made and the open goes on with them
OpenMissingOnion(rdwr, page_size, creation_flags, revision_id, comment, fault) ==
    /\ canon.exists
    /\ ~onion.exists
    /\ IF rdwr
       THEN OpenHistory(FabricatedOnion(page_size, creation_flags), EmptyFile,
                <<IoOpen("canon", "open"), IoOpen("onion", "open"),
                  IoOpen("onion", "create"), IoOpen("recov", "create"),
                  IoWrite("onion", 0, H5FD__ONION_ENCODED_SIZE_HEADER),
                  IoWrite("onion", H5FD__ONION_ENCODED_SIZE_HEADER + 1,
                          H5FD__ONION_ENCODED_SIZE_WHOLE_HISTORY)>>,
                H5FD__onion_set_userinfo_in_record(OpenRecord(page_size)),
                FALSE, TRUE, page_size, creation_flags, revision_id, comment,
                fault)
       ELSE /\ pc = "closed"
            /\ fault = "none"
            /\ OpenFails("no_onion", onion, recov,
                         <<IoOpen("canon", "open"), IoOpen("onion", "open")>>)

(***************************************************************************)
(* set_eoa, get_eoa, get_eof and read.                                      *)
(***************************************************************************)
H5FD__onion_get_eoa(f) == f.logi_eoa

\* a get_eof that reports the end of the address space instead
GetEof_ReturnsEoa(f) == f.logi_eoa

H5FD__onion_get_eof(f) == f.logi_eof

\* H5FD__onion_set_eoa
SetEoa(addr) ==
    /\ pc = "open"
    /\ file' = [file EXCEPT !.logi_eoa = addr]
    /\ io' = <<>>
    /\ rd' = NoRead
    /\ UNCHANGED <<canon, onion, recov, pc, wr, ret, sess, logical, revs, nwrites>>

\* H5FDread on the onion file: refused past the end of addressable space
OnionBackendRead(f, addr, size) ==
    IF addr + size > f.onion_eoa
    THEN [ok |-> FALSE, bytes |-> <<>>]
    ELSE [ok |-> TRUE, bytes |-> FileRead(onion, addr, size)]

\* the bytes of the canonical file for [addr_start, addr_start + want),
\* zero-filled after origin_eof
CanonOrZero(f, addr_start, want) ==
    LET overlap_size == IF addr_start > f.origin_eof THEN 0
                        ELSE f.origin_eof - addr_start
        read_size == Min(overlap_size, want)
    IN  FileRead(canon, addr_start, read_size) \o Zeros(want - read_size)

\* the head gap of iteration i of a page loop over [offset, ...)
PageGapHead(f, offset, i) ==
    IF i = 0 THEN offset % Pow2(f.rev_record.archival_index.page_size_log2)
    ELSE 0

\* page_size - page_gap_head - page_gap_tail in unsigned arithmetic: on the
\* last page the tail gap is page_size - bytes_left - page_gap_head, which
\* wraps when the bytes left do not fit the page, so the difference is
\* bytes_left whatever the sign of the tail gap
PageBytes(f, i, n_pages, head, bytes_left) ==
    IF i = n_pages - 1 THEN bytes_left ELSE f.header.page_size - head

\* (len + page_size - 1) >> page_size_log2
NPages(f, len) ==
    ShiftR(len + f.header.page_size - 1, f.rev_record.archival_index.page_size_log2)

\* the page loop of H5FD__onion_read from iteration i on
RECURSIVE ReadPages(_, _, _, _, _, _, _)
ReadPages(f, offset, i, n_pages, bytes_to_read, buf_out, ios) ==
    IF i >= n_pages
    THEN [ret |-> "SUCCEED", buf |-> buf_out, io |-> ios]
    ELSE LET page_i == ShiftR(offset, f.rev_record.archival_index.page_size_log2) + i
             page_gap_head == PageGapHead(f, offset, i)
             page_readsize == PageBytes(f, i, n_pages, page_gap_head, bytes_to_read)
             live == IF f.is_open_rw
                     THEN H5FD_onion_revision_index_find(f.rev_index, page_i)
                     ELSE [ret |-> 0, entry |-> NoEntry]
             dead == H5FD_onion_archival_index_find(f.rev_record.archival_index,
                                                    page_i)
             e == IF live.ret = 1 THEN live.entry ELSE dead.entry
             r == OnionBackendRead(f, e.phys_addr + page_gap_head, page_readsize)
             rdio == <<IoRead("onion", e.phys_addr + page_gap_head, page_readsize)>>
         IN  IF live.ret = 1 \/ dead.ret = 1
             THEN IF r.ok
                  THEN ReadPages(f, offset, i + 1, n_pages,
                                 bytes_to_read - page_readsize,
                                 buf_out \o r.bytes, ios \o rdio)
                  ELSE [ret |-> "FAIL", buf |-> buf_out, io |-> ios \o rdio]
             ELSE ReadPages(f, offset, i + 1, n_pages,
                            bytes_to_read - page_readsize,
                            buf_out \o CanonOrZero(f,
                                page_i * f.header.page_size + page_gap_head,
                                page_readsize),
                            ios)

\* H5FD__onion_read
H5FD__onion_read(f, offset, len) ==
    IF offset + len > f.logi_eoa
    THEN [ret |-> "FAIL", buf |-> <<>>, io |-> <<>>]
    ELSE IF len = 0
    THEN [ret |-> "SUCCEED", buf |-> <<>>, io |-> <<>>]
    ELSE ReadPages(f, offset, 0, NPages(f, len), len, <<>>, <<>>)

Read(offset, len) ==
    /\ pc = "open"
    /\ LET r == H5FD__onion_read(file, offset, len)
       IN  /\ rd' = [valid |-> TRUE, offset |-> offset, len |-> len,
                     ret |-> r.ret, buf |-> r.buf]
           /\ io' = r.io
    /\ UNCHANGED <<canon, onion, recov, file, pc, wr, ret, sess, logical, revs,
                   nwrites>>

(***************************************************************************)
(* write: one step per iteration of the page loop.                          *)
(***************************************************************************)
\* the bytes of write call number w
WriteBuf(w, len) == [j \in 1..len |-> 10 * w + j]

\* memcpy(page_buf + at, src, Len(src)) as far as it stays inside the page
Overlay(page_buf, at, src) ==
    [j \in 1..Len(page_buf) |->
        IF at < j /\ j <= at + Len(src) THEN src[j - at] ELSE page_buf[j]]

\* page writes sent to the canonical file
PageWriteFile_Canonical == "canon"

\* the backing file the write of a page is sent to
PageWriteFile == "onion"

\* page_0 + i in the page loop of H5FD__onion_write
PageIndex(f, w) ==
    ShiftR(w.offset, f.rev_record.archival_index.page_size_log2) + w.i

\* iteration w.i of the page loop of H5FD__onion_write on handle f, given
\* what the look-ups in the two indexes returned (live, dead) and what the
\* insertion of a new entry for the page would return (ins);
\* overflow reports a memcpy that runs past the end of page_buf
PageOutcome(f, w, live, dead, ins) ==
    LET page_size == f.header.page_size
        page_i == PageIndex(f, w)
        page_gap_head == PageGapHead(f, w.offset, w.i)
        page_n_used == PageBytes(f, w.i, w.n_pages, page_gap_head, w.bytes_to_write)
        partial == page_gap_head # 0 \/ page_gap_head + page_n_used # page_size
        src == SubSeq(w.buf, w.pos + 1, w.pos + page_n_used)
        next_w == [w EXCEPT !.i = @ + 1, !.pos = @ + page_n_used,
                            !.bytes_to_write = @ - page_n_used]
        \* page already in the revision index: amended in place
        live_buf == IF partial
                    THEN Overlay(FileRead(onion, live.entry.phys_addr, page_size),
                                 0, src)
                    ELSE src
        \* page not yet in the revision index: a new page at history_eof
        seed == IF dead.ret = 1
                THEN FileRead(onion, dead.entry.phys_addr, page_size)
                ELSE CanonOrZero(f, page_i * page_size, page_size)
        new_buf == IF partial THEN Overlay(seed, page_gap_head, src) ELSE src
    IN  IF live.ret = 1
        THEN [ret |-> "SUCCEED",
              overflow |-> partial /\ page_n_used > page_size,
              file |-> f,
              addr |-> live.entry.phys_addr,
              page |-> live_buf,
              wr |-> next_w]
        ELSE [ret |-> ins.ret,
              overflow |-> partial /\ page_gap_head + page_n_used > page_size,
              file |-> [f EXCEPT
                  !.onion_eoa = f.history_eof + page_size,
                  !.rev_index = ins.rix,
                  !.history_eof = IF ins.ret = "SUCCEED"
                                  THEN f.history_eof + page_size ELSE @],
              addr |-> f.history_eof,
              page |-> new_buf,
              wr |-> next_w]

\* a page loop that takes the page of the revision opened for the page of
\* the session, and so writes over it
PageIteration_InPlace(f, w) ==
    PageOutcome(f, w,
        H5FD_onion_archival_index_find(f.rev_record.archival_index,
                                       PageIndex(f, w)),
        H5FD_onion_archival_index_find(f.rev_record.archival_index,
                                       PageIndex(f, w)),
        H5FD_onion_revision_index_insert(f.rev_index,
            [logi_page |-> PageIndex(f, w), phys_addr |-> f.history_eof]))

PageIteration(f, w) ==
    PageOutcome(f, w,
        H5FD_onion_revision_index_find(f.rev_index, PageIndex(f, w)),
        H5FD_onion_archival_index_find(f.rev_record.archival_index,
                                       PageIndex(f, w)),
        H5FD_onion_revision_index_insert(f.rev_index,
            [logi_page |-> PageIndex(f, w), phys_addr |-> f.history_eof]))

\* the logical file after [offset, offset + Len(buf)) is replaced by buf
LogicalWrite(bytes, offset, buf) ==
    [k \in 1..Len(bytes) |->
        IF offset < k /\ k <= offset + Len(buf) THEN buf[k - offset] ELSE bytes[k]]

\* the effect of one iteration whose outcome is r: the page is written, then
\* the call either goes on to the next page, or returns after the last one;
\* a memcpy past the page buffer may also end the process before the page
\* is written
PageDone(w, r) ==
    LET last == r.wr.i >= w.n_pages
    IN  \/ /\ onion' = IF PageWriteFile = "onion"
                       THEN FileWrite(onion, r.addr, file.header.page_size,
                                      DataBlob(r.page))
                       ELSE onion
           /\ canon' = IF PageWriteFile = "onion" THEN canon
                       ELSE FileWrite(canon, r.addr, file.header.page_size,
                                      DataBlob(r.page))
           /\ io' = <<IoWrite(PageWriteFile, r.addr, file.header.page_size)>>
           /\ IF r.ret = "FAIL"
              THEN /\ file' = r.file
                   /\ pc' = "open"
                   /\ wr' = NoWrite
                   /\ ret' = [op |-> "write", status |-> "FAIL"]
                   /\ UNCHANGED <<logical, sess>>
              ELSE IF last
              THEN /\ file' = [r.file EXCEPT
                          !.logi_eof = Max(@, w.offset + w.len)]
                   /\ pc' = "open"
                   /\ wr' = NoWrite
                   /\ ret' = [op |-> "write", status |-> "SUCCEED"]
                   /\ logical' = LogicalWrite(logical, w.offset, w.buf)
                   /\ sess' = [sess EXCEPT
                          !.written = @ \cup (w.offset..(w.offset + w.len - 1)),
                          !.wend = Max(@, w.offset + w.len)]
              ELSE /\ file' = r.file
                   /\ pc' = "write"
                   /\ wr' = r.wr
                   /\ UNCHANGED <<ret, logical, sess>>
        \/ /\ r.overflow
           /\ pc' = "closed"
           /\ file' = NullFile
           /\ wr' = NoWrite
           /\ io' = <<>>
           /\ ret' = [op |-> "write", status |-> "abort"]
           /\ UNCHANGED <<canon, onion, logical, sess>>

DoPage(w) == PageDone(w, PageIteration(file, w))

\* H5FD__onion_write with the length check placed after the update of logi_eof
Write_ZeroLengthMovesEof(offset, len) ==
    /\ pc = "open"
    /\ file.is_open_rw
    /\ nwrites < MaxWrites
    /\ offset + len <= file.logi_eoa
    /\ nwrites' = nwrites + 1
    /\ rd' = NoRead
    /\ UNCHANGED <<recov, revs>>
    /\ IF len = 0
       THEN /\ ret' = [op |-> "write", status |-> "SUCCEED"]
            /\ io' = <<>>
            /\ sess' = [sess EXCEPT !.wend = Max(@, offset + len)]
            /\ file' = [file EXCEPT !.logi_eof = Max(@, offset + len)]
            /\ UNCHANGED <<canon, onion, pc, wr, logical>>
       ELSE IF NPages(file, len) = 0
       THEN \* the page loop has no iteration
            /\ file' = [file EXCEPT !.logi_eof = Max(@, offset + len)]
            /\ ret' = [op |-> "write", status |-> "SUCCEED"]
            /\ io' = <<>>
            /\ sess' = [sess EXCEPT !.wend = Max(@, offset + len)]
            /\ UNCHANGED <<canon, onion, pc, wr, logical>>
       ELSE DoPage([offset |-> offset, len |-> len,
                    buf |-> WriteBuf(nwrites + 1, len), i |-> 0,
                    n_pages |-> NPages(file, len), bytes_to_write |-> len,
                    pos |-> 0])

\* H5FD__onion_write on a handle opened for writing: the checks and the
\* first iteration of the page loop
Write(offset, len) ==
    /\ pc = "open"
    /\ file.is_open_rw
    /\ nwrites < MaxWrites
    /\ offset + len <= file.logi_eoa
    /\ nwrites' = nwrites + 1
    /\ rd' = NoRead
    /\ UNCHANGED <<recov, revs>>
    /\ IF len = 0
       THEN /\ ret' = [op |-> "write", status |-> "SUCCEED"]
            /\ io' = <<>>
            /\ sess' = [sess EXCEPT !.wend = Max(@, offset + len)]
            /\ UNCHANGED <<canon, onion, file, pc, wr, logical>>
       ELSE IF NPages(file, len) = 0
       THEN \* the page loop has no iteration
            /\ file' = [file EXCEPT !.logi_eof = Max(@, offset + len)]
            /\ ret' = [op |-> "write", status |-> "SUCCEED"]
            /\ io' = <<>>
            /\ sess' = [sess EXCEPT !.wend = Max(@, offset + len)]
            /\ UNCHANGED <<canon, onion, pc, wr, logical>>
       ELSE DoPage([offset |-> offset, len |-> len,
                    buf |-> WriteBuf(nwrites + 1, len), i |-> 0,
                    n_pages |-> NPages(file, len), bytes_to_write |-> len,
                    pos |-> 0])

\* the later iterations of the page loop
WritePage ==
    /\ pc = "write"
    /\ DoPage(wr)
    /\ UNCHANGED <<recov, rd, revs, nwrites>>

\* H5FD__onion_write on a handle opened read-only: the assertion on
\* rev_index ends the process where assertions are compiled in, otherwise
\* the call returns an error
WriteReadOnly ==
    /\ pc = "open"
    /\ ~file.is_open_rw
    /\ \/ /\ pc' = "open"
          /\ ret' = [op |-> "write", status |-> "FAIL"]
          /\ UNCHANGED file
       \/ /\ pc' = "closed"
          /\ file' = NullFile
          /\ ret' = [op |-> "write", status |-> "abort"]
    /\ io' = <<>>
    /\ rd' = NoRead
    /\ UNCHANGED <<canon, onion, recov, wr, sess, logical, revs, nwrites>>

(***************************************************************************)
(* close: one step per write of the commit.                                 *)
(***************************************************************************)
\* a failing close that also removes the recovery file
CloseFails_Unlinks(why) ==
    /\ pc' = "closed"
    /\ file' = NullFile
    /\ ret' = [op |-> "close", status |-> why]
    /\ rd' = NoRead
    /\ recov' = NoSuchFile
    /\ UNCHANGED <<canon, wr, sess, logical, revs, nwrites>>

\* a close that fails part-way: the handle is released, the files stay
CloseFails(why) ==
    /\ pc' = "closed"
    /\ file' = NullFile
    /\ ret' = [op |-> "close", status |-> why]
    /\ rd' = NoRead
    /\ UNCHANGED <<canon, recov, wr, sess, logical, revs, nwrites>>

\* a close of a read-only handle that rewrites the header
CloseReadOnly_RewritesHeader ==
    /\ pc = "open"
    /\ ~file.is_open_rw
    /\ pc' = "closed"
    /\ file' = NullFile
    /\ ret' = [op |-> "close", status |-> "SUCCEED"]
    /\ onion' = FileWrite(onion, 0, H5FD__ONION_ENCODED_SIZE_HEADER,
                     MetaBlob("hdr", H5FD_onion_history_header_encode(file.header)))
    /\ io' = <<IoWrite("onion", 0, H5FD__ONION_ENCODED_SIZE_HEADER)>>
    /\ rd' = NoRead
    /\ UNCHANGED <<canon, recov, wr, sess, logical, revs, nwrites>>

\* H5FD__onion_close on a handle opened read-only
CloseReadOnly ==
    /\ pc = "open"
    /\ ~file.is_open_rw
    /\ pc' = "closed"
    /\ file' = NullFile
    /\ ret' = [op |-> "close", status |-> "SUCCEED"]
    /\ io' = <<>>
    /\ rd' = NoRead
    /\ UNCHANGED <<canon, onion, recov, wr, sess, logical, revs, nwrites>>

\* a record pointer that designates the end of the record
NewRecordPointer_AtEnd(phys_addr, size) ==
    [phys_addr |-> phys_addr + size, record_size |-> size,
     checksum |-> H5_checksum_fletcher32(<<phys_addr + size, size>>)]

\* the record pointer H5FD__onion_commit_new_revision_record appends
NewRecordPointer(phys_addr, size) ==
    [phys_addr |-> phys_addr, record_size |-> size,
     checksum |-> H5_checksum_fletcher32(<<phys_addr, size>>)]

\* a commit that leaves header.whole_history_addr where it was
CommittedRecord_StaleAddr(f, aix) ==
    LET rec == [f.rev_record EXCEPT !.logi_eof = f.logi_eof,
                                    !.archival_index = aix]
        size == RevisionRecordEncodedSize(aix.n_entries, rec.username_size,
                                          rec.comment_size)
        phys_addr == f.history_eof
        eof == IF f.page_align_history
               THEN AlignUp(phys_addr + size, f.header.page_size)
               ELSE phys_addr + size
    IN  [f EXCEPT
            !.rev_record = rec,
            !.onion_eoa = phys_addr + size,
            !.history_eof = eof,
            !.summary = [n_revisions |-> f.summary.n_revisions + 1,
                         record_pointer_list |->
                             Append(f.summary.record_pointer_list,
                                    NewRecordPointer(phys_addr, size))],
            !.header = [f.header EXCEPT
                           !.whole_history_size =
                               @ + H5FD__ONION_ENCODED_SIZE_RECORD_POINTER]]

\* the handle after H5FD__onion_commit_new_revision_record wrote the record
\* holding the archival index aix
CommittedRecord(f, aix) ==
    LET rec == [f.rev_record EXCEPT !.logi_eof = f.logi_eof,
                                    !.archival_index = aix]
        size == RevisionRecordEncodedSize(aix.n_entries, rec.username_size,
                                          rec.comment_size)
        phys_addr == f.history_eof
        eof == IF f.page_align_history
               THEN AlignUp(phys_addr + size, f.header.page_size)
               ELSE phys_addr + size
    IN  [f EXCEPT
            !.rev_record = rec,
            !.onion_eoa = phys_addr + size,
            !.history_eof = eof,
            !.summary = [n_revisions |-> f.summary.n_revisions + 1,
                         record_pointer_list |->
                             Append(f.summary.record_pointer_list,
                                    NewRecordPointer(phys_addr, size))],
            !.header = [f.header EXCEPT
                           !.whole_history_size =
                               @ + H5FD__ONION_ENCODED_SIZE_RECORD_POINTER,
                           !.whole_history_addr = eof]]

\* close, first step: H5FD__onion_commit_new_revision_record
CloseCommitRecord(fault) ==
    /\ pc = "open"
    /\ file.is_open_rw
    /\ \E m \in H5FD_onion_merge_revision_index_into_archival_index(
                    file.rev_index, file.rev_record.archival_index) :
         LET f == CommittedRecord(file, m.aix)
             size == f.onion_eoa - file.history_eof
         IN  IF m.ret = "FAIL"
             THEN /\ CloseFails("FAIL_merge")
                  /\ io' = <<>>
                  /\ UNCHANGED onion
             ELSE IF fault
             THEN /\ CloseFails("FAIL_record")
                  /\ io' = <<>>
                  /\ UNCHANGED onion
             ELSE /\ onion' = FileWrite(onion, file.history_eof, size,
                                  MetaBlob("rec",
                                      H5FD_onion_revision_record_encode(f.rev_record)))
                  /\ io' = <<IoWrite("onion", file.history_eof, size)>>
                  /\ file' = f
                  /\ pc' = "close_whs"
                  /\ rd' = NoRead
                  /\ UNCHANGED <<canon, recov, wr, ret, sess, logical, revs, nwrites>>

\* close, second step: H5FD__onion_update_and_write_whole_history
CloseWriteWholeHistory(fault) ==
    /\ pc = "close_whs"
    /\ LET size == WholeHistoryEncodedSize(file.summary.n_revisions)
       IN  IF fault
           THEN /\ CloseFails("FAIL_whole_history")
                /\ io' = <<>>
                /\ UNCHANGED onion
           ELSE /\ onion' = FileWrite(onion, file.history_eof, size,
                                MetaBlob("whs",
                                    H5FD_onion_whole_history_encode(file.summary)))
                /\ io' = <<IoWrite("onion", file.history_eof, size)>>
                /\ IF size # file.header.whole_history_size
                   THEN CloseFails("FAIL_whole_history_size")
                   ELSE /\ file' = [file EXCEPT
                               !.onion_eoa = file.history_eof + size,
                               !.history_eof = @ + size]
                        /\ pc' = "close_hdr"
                        /\ UNCHANGED <<canon, recov, wr, rd, ret, sess, logical,
                                       revs, nwrites>>

\* a header rewrite that leaves the write-lock flag alone
UnlockedHeader_KeepsLock(f) == f.header

\* the header H5FD__onion_update_and_write_header encodes
UnlockedHeader(f) ==
    IF f.is_open_rw
    THEN [f.header EXCEPT !.flags = @ \ {H5FD__ONION_HEADER_FLAG_WRITE_LOCK}]
    ELSE f.header

\* close, third step: H5FD__onion_update_and_write_header
CloseWriteHeader(fault) ==
    /\ pc = "close_hdr"
    /\ IF fault
       THEN /\ CloseFails("FAIL_header")
            /\ io' = <<>>
            /\ UNCHANGED onion
       ELSE /\ onion' = FileWrite(onion, 0, H5FD__ONION_ENCODED_SIZE_HEADER,
                            MetaBlob("hdr", H5FD_onion_history_header_encode(
                                                UnlockedHeader(file))))
            /\ io' = <<IoWrite("onion", 0, H5FD__ONION_ENCODED_SIZE_HEADER)>>
            /\ file' = [file EXCEPT !.header = UnlockedHeader(file)]
            /\ pc' = "close_recov"
            /\ revs' = Append(revs, [bytes |-> logical,
                                     eof |-> file.rev_record.logi_eof])
            /\ UNCHANGED <<canon, recov, wr, rd, ret, sess, logical, nwrites>>

\* close, last step: the recovery file is closed and removed, the other
\* files are closed and the handle is released
CloseFinish(fault) ==
    /\ pc = "close_recov"
    /\ IF fault
       THEN /\ CloseFails("FAIL_recovery_close")
            /\ io' = <<>>
            /\ UNCHANGED onion
       ELSE /\ recov' = NoSuchFile
            /\ io' = <<IoUnlink("recov")>>
            /\ pc' = "closed"
            /\ file' = NullFile
            /\ ret' = [op |-> "close", status |-> "SUCCEED"]
            /\ UNCHANGED <<canon, onion, wr, rd, sess, logical, revs, nwrites>>

\* the process ends while it holds a handle opened for writing
Crash ==
    /\ pc # "closed"
    /\ file.is_open_rw
    /\ pc' = "closed"
    /\ file' = NullFile
    /\ wr' = NoWrite
    /\ rd' = NoRead
    /\ io' = <<>>
    /\ ret' = [op |-> "crash", status |-> "abort"]
    /\ UNCHANGED <<canon, onion, recov, sess, logical, revs, nwrites>>

(***************************************************************************)
(* The calls a caller makes.                                                *)
(***************************************************************************)
\* revisions a file-access property list may ask for
FaRevisionIds == (0..MaxRevisions) \cup {H5FD_ONION_FAPL_INFO_REVISION_ID_LATEST}
\* the write calls, as (offset, len), for page size p
WriteShapes(p) == {<<0, 0>>, <<p, 0>>, <<0, 1>>, <<1, 1>>, <<0, p>>,
                   <<p - 1, 2>>, <<0, 2 * p>>}
\* the read calls, as (offset, len), for page size p
ReadShapes(p) == {<<1, 0>>, <<0, p>>, <<p - 1, 2>>, <<0, 2 * p>>}

Next ==
    \/ \E p \in FaPageSizes, c \in FaCreationFlags, m \in FaComments :
          OpenCreate(p, c, m)
    \/ \E rdwr \in BOOLEAN, p \in FaPageSizes, r \in FaRevisionIds,
          m \in FaComments, fault \in OpenRwFaults :
          OpenExisting(rdwr, p, r, m, fault)
    \/ \E rdwr \in BOOLEAN, p \in FaPageSizes, c \in FaCreationFlags,
          r \in FaRevisionIds, m \in FaComments, fault \in OpenRwFaults :
          OpenMissingOnion(rdwr, p, c, r, m, fault)
    \/ SetEoa(LogiSpace)
    \/ \E s \in ReadShapes(MaxPageSize) : Read(s[1], s[2])
    \/ \E s \in WriteShapes(MaxPageSize) : Write(s[1], s[2])
    \/ WritePage
    \/ WriteReadOnly
    \/ CloseReadOnly
    \/ \E fault \in BOOLEAN : CloseCommitRecord(fault)
    \/ \E fault \in BOOLEAN : CloseWriteWholeHistory(fault)
    \/ \E fault \in BOOLEAN : CloseWriteHeader(fault)
    \/ \E fault \in BOOLEAN : CloseFinish(fault)
    \/ Crash

Spec == Init /\ [][Next]_vars

(***************************************************************************)
(* Properties.                                                              *)
(***************************************************************************)
\* the page of logical address a in the open handle
PageOf(a) == ShiftR(a, file.rev_record.archival_index.page_size_log2)
\* the pages of the archival index the session was opened on
ParentPages == {sess.aix0[i].logi_page : i \in 1..Len(sess.aix0)}
\* a read call that stayed inside the addressable space has returned
ReadReturned == pc = "open" /\ rd.valid /\ rd.offset + rd.len <= file.logi_eoa

\* C1: within one read/write session a read returns, for each byte, the
\* value last written to it in the session, and for an unwritten byte of a
\* page the parent's archival index does not hold, the canonical byte below
\* origin_eof and zero otherwise.
C1_ReadReturnsSessionBytes ==
    (ReadReturned /\ file.is_open_rw) =>
        /\ rd.ret = "SUCCEED"
        /\ \A k \in 1..rd.len :
              LET a == rd.offset + k - 1
              IN  /\ a \in sess.written => rd.buf[k] = logical[a + 1]
                  /\ (a \notin sess.written /\ PageOf(a) \notin ParentPages) =>
                        rd.buf[k] = (IF a < file.origin_eof
                                     THEN ByteAt(canon, a) ELSE 0)

\* C2: a read-only session opened at revision k reads the logical file as
\* it was when revision k was committed, and reports that revision's
\* logi_eof.
C2_ReadOnlySeesRevision ==
    (pc = "open" /\ ~file.is_open_rw /\ sess.rev + 1 \in DOMAIN revs) =>
        /\ H5FD__onion_get_eof(file) = revs[sess.rev + 1].eof
        /\ ReadReturned =>
              /\ rd.ret = "SUCCEED"
              /\ rd.buf = SubSeq(revs[sess.rev + 1].bytes, rd.offset + 1,
                                 rd.offset + rd.len)

(***************************************************************************)
(* What is on disk, as another process would find it.                       *)
(***************************************************************************)
DiskHasHeader ==
    onion.exists /\ HasBlob(onion, 0, H5FD__ONION_ENCODED_SIZE_HEADER, "hdr")
\* the flags word of the header stored at offset 0
DiskFlags == GetBlob(onion, 0, H5FD__ONION_ENCODED_SIZE_HEADER, "hdr").flags
DiskLocked == DiskHasHeader /\ H5FD__ONION_HEADER_FLAG_WRITE_LOCK \in DiskFlags
\* whole_history_addr and whole_history_size as stored at offset 0 of file f
StoredAddr(f) ==
    UINT64DECODE(GetBlob(f, 0, H5FD__ONION_ENCODED_SIZE_HEADER, "hdr").whole_history_addr)
StoredSize(f) ==
    UINT64DECODE(GetBlob(f, 0, H5FD__ONION_ENCODED_SIZE_HEADER, "hdr").whole_history_size)
\* the header of f designates an intact encoded whole-history
HasWholeHistory(f) == HasBlob(f, StoredAddr(f), StoredSize(f), "whs")
StoredWholeHistory(f) == GetBlob(f, StoredAddr(f), StoredSize(f), "whs")
\* the header on disk designates the intact encoding of summary
DiskDesignates(summary) ==
    /\ DiskHasHeader
    /\ StoredSize(onion) = WholeHistoryEncodedSize(summary.n_revisions)
    /\ HasWholeHistory(onion)
    /\ StoredWholeHistory(onion) = H5FD_onion_whole_history_encode(summary)
\* pointer number i of the whole-history on disk designates an intact
\* revision record, stored whole at the address and with the size it names
DiskPointerGood(i) ==
    LET rpp == StoredWholeHistory(onion).pointers[i]
    IN  /\ HasBlob(onion, UINT64DECODE(rpp.phys_addr),
                   UINT64DECODE(rpp.record_size), "rec")
        /\ rpp.checksum
              = H5_checksum_fletcher32(<<UINT64DECODE(rpp.phys_addr),
                                         UINT64DECODE(rpp.record_size)>>)

\* a handle opened for writing whose commit has not rewritten the header yet
BeforeHeaderRewrite ==
    pc \in {"open", "write", "close_whs", "close_hdr"} /\ file.is_open_rw
\* a close that wrote the whole commit and returned
CleanClose == pc = "closed" /\ ret.op = "close" /\ ret.status = "SUCCEED"
\* a close that returned after one of the steps of the commit failed
CommitFailed ==
    /\ pc = "closed"
    /\ ret.op = "close"
    /\ ret.status \in {"FAIL_merge", "FAIL_record", "FAIL_whole_history",
                       "FAIL_whole_history_size", "FAIL_header"}
\* the step is an open with H5F_ACC_CREAT | H5F_ACC_TRUNC
CreateStep == Len(io') > 0 /\ io'[1].op = "create"

\* C3: in a read/write session on an existing onion file no byte of the onion
\* file in [40, E) changes, E being the end of the file at open; the writes
\* to the onion file are the header at offset 0 and writes at E or beyond.
C3_HistoryAppendOnly ==
    (sess.existing /\ sess.rw) =>
        /\ ClipAll(onion.ext, H5FD__ONION_ENCODED_SIZE_HEADER, sess.E)
              = ClipAll(sess.onion0.ext, H5FD__ONION_ENCODED_SIZE_HEADER, sess.E)
        /\ \A i \in 1..Len(io) :
              (io[i].f = "onion" /\ io[i].op = "write") =>
                  \/ io[i].addr = 0 /\ io[i].size = H5FD__ONION_ENCODED_SIZE_HEADER
                  \/ io[i].addr >= sess.E
\* a read/write session on an existing file wrote pages and committed
C3_Witness ==
    sess.existing /\ sess.rw /\ sess.written # {} /\ CleanClose /\ sess.E > 0

\* C4: a session on an existing file, through its writes, reads and close,
\* leaves the canonical file as it was at open and sends it no write.
C4_CanonicalNeverWritten ==
    sess.existing =>
        /\ canon = sess.canon0
        /\ \A i \in 1..Len(io) : io[i].f = "canon" => io[i].op \in {"open", "read"}
\* a read/write session on an existing file wrote pages and rewrote the header
C4_Witness ==
    sess.existing /\ sess.rw /\ sess.written # {} /\ pc = "close_recov"

\* C5: an open without create/truncate of an onion file whose stored header
\* has the write-lock flag is refused: no handle, nothing read but the
\* header, onion file and recovery file left as they were.
C5_LockedOpenRefused ==
    [][(pc = "closed" /\ DiskLocked /\ ~CreateStep) =>
          /\ pc' = "closed"
          /\ file' = NullFile
          /\ ret' = [op |-> "open", status |-> "write_locked"]
          /\ onion' = onion
          /\ recov' = recov
          /\ io' = <<IoOpen("canon", "open"), IoOpen("onion", "open"),
                     IoRead("onion", 0, H5FD__ONION_ENCODED_SIZE_HEADER)>>]_vars
\* an open was refused because of the write lock
C5_Witness ==
    pc = "closed" /\ ret = [op |-> "open", status |-> "write_locked"] /\ DiskLocked

\* C6: from a successful read/write open until the header rewrite of the
\* commit the stored header has the write-lock flag; the flag is cleared on
\* disk only by that rewrite; it is clear after a clean close.
C6_LockHeldUntilHeaderRewrite ==
    /\ [](BeforeHeaderRewrite => DiskLocked)
    /\ [][(DiskLocked /\ ~DiskLocked') =>
             (pc = "close_hdr" /\ pc' = "close_recov")]_vars
    /\ [](CleanClose => ~DiskLocked)
\* a read/write session closed cleanly and left the header unlocked
C6_Witness == CleanClose /\ sess.rw /\ DiskHasHeader /\ ~DiskLocked

\* C7: in a read/write session on an existing onion file the stored header
\* designates the intact whole-history of the revisions committed before the
\* session until the header rewrite, and from the rewrite on an intact
\* whole-history of those revisions plus the new one; a stored header never
\* designates a damaged whole-history once a revision is committed.
C7_CommitAtomicAtHeaderRewrite ==
    /\ (sess.existing /\ sess.rw) =>
          IF Len(revs) = sess.summary0.n_revisions
          THEN DiskDesignates(sess.summary0)
          ELSE /\ DiskHasHeader
               /\ HasWholeHistory(onion)
               /\ Len(StoredWholeHistory(onion).pointers)
                     = sess.summary0.n_revisions + 1
               /\ SubSeq(StoredWholeHistory(onion).pointers, 1,
                         sess.summary0.n_revisions)
                     = H5FD_onion_whole_history_encode(sess.summary0).pointers
    /\ Len(revs) > 0 =>
          /\ DiskHasHeader
          /\ HasWholeHistory(onion)
          /\ UINT64DECODE(StoredWholeHistory(onion).n_revisions) = Len(revs)
          /\ Len(StoredWholeHistory(onion).pointers) = Len(revs)
          /\ \A i \in 1..Len(revs) : DiskPointerGood(i)
\* the header rewrite of a session on an existing file has just happened
C7_Witness ==
    /\ sess.existing /\ sess.rw /\ pc = "close_recov"
    /\ Len(revs) = sess.summary0.n_revisions + 1

\* C8: when a step of the commit fails, the stored header keeps the
\* write-lock flag and the recovery file stays; the opens without
\* create/truncate that follow are refused.
C8_FailedCommitKeepsLock ==
    /\ [](CommitFailed => (DiskLocked /\ recov.exists))
    /\ [][(CommitFailed /\ ~CreateStep) =>
             (pc' = "closed"
              /\ ret' \in {ret, [op |-> "open", status |-> "write_locked"]})]_vars
\* the header write of a commit on an existing file failed
C8_Witness == CommitFailed /\ ret.status = "FAIL_header" /\ sess.existing

\* C9: during a read/write session on an existing onion file the recovery
\* file exists and holds the whole-history as the onion file stored it at
\* open, unchanged; it is removed only after the header rewrite, and is
\* absent after a clean close.
C9_RecoveryHoldsWholeHistory ==
    /\ []((sess.existing /\ sess.rw /\ pc # "closed") =>
             /\ recov.exists
             /\ recov = sess.recov0
             /\ HasBlob(recov, 0, recov.eof, "whs")
             /\ GetBlob(recov, 0, recov.eof, "whs")
                   = StoredWholeHistory(sess.onion0))
    /\ [][(recov.exists /\ ~recov'.exists) =>
             (pc = "close_recov" /\ ~DiskLocked)]_vars
    /\ []((CleanClose /\ sess.rw) => ~recov.exists)
\* a read/write session on an existing file has written pages
C9_Witness ==
    sess.existing /\ sess.rw /\ pc = "open" /\ sess.written # {} /\ recov.exists

(***************************************************************************)
(* The merge on its own: an archival index A and a revision index R built   *)
(* by insertions, then H5FD_onion_merge_revision_index_into_archival_index. *)
(***************************************************************************)
\* the valid archival index of page size 2^log2 holding the pages of S
ArchivalIndexOf(S, log2) ==
    [page_size_log2 |-> log2,
     n_entries |-> Cardinality(S),
     list |-> [i \in 1..Cardinality(S) |->
                  [logi_page |-> SortedKeys(S)[i],
                   phys_addr |-> 100 + SortedKeys(S)[i]]]]

InitMerge ==
    /\ \E S \in SUBSET (0..(MergePages - 1)) :
          /\ file = [NullFile EXCEPT
                !.rev_index = H5FD_onion_revision_index_init(MaxPageSize),
                !.rev_record.archival_index =
                    ArchivalIndexOf(S, Log2(MaxPageSize))]
          /\ sess = [NoSess EXCEPT
                !.aix0 = ArchivalIndexOf(S, Log2(MaxPageSize)).list]
    /\ pc = "merge_build"
    /\ canon = NoSuchFile
    /\ onion = NoSuchFile
    /\ recov = NoSuchFile
    /\ wr = NoWrite
    /\ rd = NoRead
    /\ io = <<>>
    /\ ret = [op |-> "none", status |-> "SUCCEED"]
    /\ logical = Zeros(LogiSpace)
    /\ revs = <<>>
    /\ nwrites = 0

\* H5FD_onion_revision_index_insert of a page not yet in R
MergeInsert(page) ==
    /\ pc = "merge_build"
    /\ H5FD_onion_revision_index_find(file.rev_index, page).ret = 0
    /\ file' = [file EXCEPT !.rev_index =
                   H5FD_onion_revision_index_insert(
                       @, [logi_page |-> page, phys_addr |-> 200 + page]).rix]
    /\ UNCHANGED <<canon, onion, recov, pc, wr, rd, io, ret, sess, logical,
                   revs, nwrites>>

\* H5FD_onion_merge_revision_index_into_archival_index(R, A)
MergeCall ==
    /\ pc = "merge_build"
    /\ \E m \in H5FD_onion_merge_revision_index_into_archival_index(
                    file.rev_index, file.rev_record.archival_index) :
          /\ file' = [file EXCEPT !.rev_record.archival_index = m.aix]
          /\ ret' = [op |-> "merge", status |-> m.ret]
    /\ pc' = "merged"
    /\ UNCHANGED <<canon, onion, recov, wr, rd, io, sess, logical, revs, nwrites>>

NextMerge ==
    \/ \E page \in 0..(MergePages - 1) : MergeInsert(page)
    \/ MergeCall

SpecMerge == InitMerge /\ [][NextMerge]_vars

\* the entries of revision index rix
RevisionEntries(rix) ==
    {TableNodes(rix.hash_table)[i].entry : i \in 1..Len(TableNodes(rix.hash_table))}
\* what merging the entries R into the list A should leave
MergeExpected(R, A) ==
    R \cup {A[i] : i \in {j \in 1..Len(A) :
                             \A r \in R : r.logi_page # A[j].logi_page}}

\* C10: merging R into A leaves a list sorted by logi_page that holds R's
\* entry for every page of R, A's entry for every page only in A, and no
\* entry of A for a page of R, whatever the sizes of R and A.
C10_MergeYieldsUnion ==
    pc = "merged" =>
        /\ ret.status = "SUCCEED"
        /\ {file.rev_record.archival_index.list[i] :
               i \in 1..Len(file.rev_record.archival_index.list)}
              = MergeExpected(RevisionEntries(file.rev_index), sess.aix0)
        /\ Len(file.rev_record.archival_index.list)
              = Cardinality(MergeExpected(RevisionEntries(file.rev_index),
                                          sess.aix0))
        /\ file.rev_record.archival_index.n_entries
              = Len(file.rev_record.archival_index.list)
        /\ \A i \in 1..(Len(file.rev_record.archival_index.list) - 1) :
              file.rev_record.archival_index.list[i].logi_page
                 < file.rev_record.archival_index.list[i + 1].logi_page

(***************************************************************************)
(* The archival indexes of the committed revisions.                         *)
(***************************************************************************)
\* C11: in every revision record stored in the onion file the entries of the
\* archival index are in strictly increasing order of logical page, so no
\* page appears twice, whatever sessions and writes came before the commit.
C11_CommittedIndexSorted ==
    \A i \in 1..Len(onion.ext) :
        onion.ext[i].blob.kind = "rec" =>
            \A j \in 1..(Len(onion.ext[i].blob.meta.entries) - 1) :
                UINT64DECODE(onion.ext[i].blob.meta.entries[j].logi_addr)
                   < UINT64DECODE(onion.ext[i].blob.meta.entries[j + 1].logi_addr)

(***************************************************************************)
(* The look-up in an archival index on its own: a valid index A, then       *)
(* calls of H5FD_onion_archival_index_find.                                 *)
(***************************************************************************)
InitFind ==
    /\ \E S \in SUBSET (0..(FindPages - 1)) :
          file = [NullFile EXCEPT
                     !.rev_record.archival_index =
                         ArchivalIndexOf(S, Log2(MaxPageSize))]
    /\ pc = "find"
    /\ canon = NoSuchFile
    /\ onion = NoSuchFile
    /\ recov = NoSuchFile
    /\ wr = NoWrite
    /\ rd = NoRead
    /\ io = <<>>
    /\ ret = [op |-> "none", status |-> 0, page |-> 0, entry |-> NoEntry]
    /\ sess = NoSess
    /\ logical = Zeros(LogiSpace)
    /\ revs = <<>>
    /\ nwrites = 0

\* H5FD_onion_archival_index_find(A, page, &entry) with entry preset to
\* NoEntry by the caller
FindCall(page) ==
    /\ pc = "find"
    /\ \E r \in {H5FD_onion_archival_index_find(file.rev_record.archival_index,
                                                page)} :
          ret' = [op |-> "find", status |-> r.ret, page |-> page,
                  entry |-> r.entry]
    /\ UNCHANGED <<canon, onion, recov, file, pc, wr, rd, io, sess, logical,
                   revs, nwrites>>

NextFind == \E page \in 0..FindPages : FindCall(page)

SpecFind == InitFind /\ [][NextFind]_vars

\* the entries of the index of the handle that are for logical page p
EntriesFor(p) ==
    {file.rev_record.archival_index.list[i] :
        i \in {j \in 1..file.rev_record.archival_index.n_entries :
                  file.rev_record.archival_index.list[j].logi_page = p}}

\* C12: on a valid archival index of any length the look-up of page p
\* returns 1 and the entry of p when the index holds p, and returns 0 and
\* leaves the caller's entry alone when it does not.
C12_FindIffPresent ==
    ret.op = "find" =>
        IF EntriesFor(ret.page) # {}
        THEN ret.status = 1 /\ ret.entry \in EntriesFor(ret.page)
        ELSE ret.status = 0 /\ ret.entry = NoEntry

(***************************************************************************)
(* The revision index on its own: insertions into a new index, first of    *)
(* one page per bucket until the table is about to double, then of pages    *)
(* that share buckets.                                                      *)
(***************************************************************************)
\* populated buckets two short of the number at which an insertion doubles
\* the table of a new index
FillKeys == Pow2(H5FD__ONION_REVISION_INDEX_STARTING_SIZE_LOG2) \div 2 - 2
\* the pages inserted after that: the pages of the two buckets left empty,
\* and two pages that fall into the first of them until the table doubles
IndexPages ==
    {0, 1, Pow2(H5FD__ONION_REVISION_INDEX_STARTING_SIZE_LOG2),
     3 * Pow2(H5FD__ONION_REVISION_INDEX_STARTING_SIZE_LOG2)}

InitIndex ==
    /\ file = [NullFile EXCEPT
                  !.rev_index = H5FD_onion_revision_index_init(MaxPageSize)]
    /\ pc = "index"
    /\ canon = NoSuchFile
    /\ onion = NoSuchFile
    /\ recov = NoSuchFile
    /\ wr = NoWrite
    /\ rd = NoRead
    /\ io = <<>>
    /\ ret = [op |-> "none", status |-> "SUCCEED"]
    /\ sess = NoSess
    /\ logical = Zeros(LogiSpace)
    /\ revs = <<>>
    /\ nwrites = 0

\* H5FD_onion_revision_index_insert of an entry for page
IndexInsertEntry(page, phys_addr) ==
    \E r \in {H5FD_onion_revision_index_insert(
                  file.rev_index, [logi_page |-> page, phys_addr |-> phys_addr])} :
       /\ file' = [file EXCEPT !.rev_index = r.rix]
       /\ ret' = [op |-> "insert", status |-> r.ret]

\* the next page of the filling: pages 2, 3, ... each in a bucket of its own
IndexFill ==
    /\ pc = "index"
    /\ file.rev_index.n_entries < FillKeys
    /\ IndexInsertEntry(file.rev_index.n_entries + 2,
                        200 + file.rev_index.n_entries + 2)
    /\ UNCHANGED <<canon, onion, recov, pc, wr, rd, io, sess, logical, revs,
                   nwrites>>

IndexInsert(page, phys_addr) ==
    /\ pc = "index"
    /\ file.rev_index.n_entries >= FillKeys
    /\ nwrites < IndexInserts
    /\ IndexInsertEntry(page, phys_addr)
    /\ nwrites' = nwrites + 1
    /\ UNCHANGED <<canon, onion, recov, pc, wr, rd, io, sess, logical, revs>>

NextIndex ==
    \/ IndexFill
    \/ \E page \in IndexPages : \E phys_addr \in {200 + page, 300 + page} :
          IndexInsert(page, phys_addr)

SpecIndex == InitIndex /\ [][NextIndex]_vars

\* C13: after any insertions and the doublings they trigger, every node of
\* the revision index is in the bucket logi_page AND (table size - 1), and no
\* logical page has two nodes.
C13_NodesInTheirBuckets ==
    \A n \in {TableNodes(file.rev_index.hash_table)} :
        /\ \A i \in 1..Len(n) :
              n[i].bucket = n[i].entry.logi_page % file.rev_index.hash_table_size
        /\ Cardinality({n[i].entry.logi_page : i \in 1..Len(n)}) = Len(n)

(***************************************************************************)
(* Pages and slots within a read/write session.                             *)
(***************************************************************************)
\* the logical pages that hold a byte written in the session
WrittenPages == {PageOf(a) : a \in sess.written}

\* C14: in a read/write session a page gets a slot in the onion file the
\* first time it is written and keeps that phys_addr when it is written
\* again, so between calls history_eof is its value at open plus page_size
\* for each distinct page written.
C14_OneSlotPerWrittenPage ==
    /\ []((pc = "open" /\ file.is_open_rw) =>
             file.history_eof
                = sess.heof0 + file.header.page_size * Cardinality(WrittenPages))
    /\ [][(pc \in {"open", "write"} /\ pc' \in {"open", "write"}) =>
             \A p \in 0..(LogiPages - 1) :
                 H5FD_onion_revision_index_find(file.rev_index, p).ret = 1 =>
                     H5FD_onion_revision_index_find(file'.rev_index, p)
                        = H5FD_onion_revision_index_find(file.rev_index, p)]_vars

\* C15: after a write of len > 0 at offset has returned, the pages
\* floor(offset / page_size) .. floor((offset + len - 1) / page_size) of every
\* write of the session, and no other page, have a slot in the revision
\* index, one each.
C15_WriteTouchesItsPages ==
    (pc = "open" /\ file.is_open_rw /\ ret = [op |-> "write", status |-> "SUCCEED"]) =>
        \A n \in {TableNodes(file.rev_index.hash_table)} :
            /\ {n[i].entry.logi_page : i \in 1..Len(n)} = WrittenPages
            /\ Len(n) = Cardinality(WrittenPages)

(***************************************************************************)
(* The revisions of the stored history.                                     *)
(***************************************************************************)
\* C16: the record that pointer number i (counted from 0) of the stored
\* whole-history designates has revision_id i, so the revision_ids are
\* strictly increasing, whichever revision a read/write session was opened
\* on and also when the first session created the onion file for an
\* existing canonical file.
C16_RevisionIdIsPosition ==
    (DiskHasHeader /\ HasWholeHistory(onion)) =>
        \A i \in 1..Len(StoredWholeHistory(onion).pointers) :
            LET rpp == StoredWholeHistory(onion).pointers[i]
            IN  DiskPointerGood(i) =>
                    UINT64DECODE(GetBlob(onion, UINT64DECODE(rpp.phys_addr),
                                         UINT64DECODE(rpp.record_size),
                                         "rec").revision_id) = i - 1

\* C17: on an onion file that is not write-locked and whose header,
\* whole-history and n >= 1 records are intact, an open without
\* create/truncate that asks for revision r succeeds exactly when r < n or r
\* is the "latest" sentinel, and then works on the record that pointer
\* number min(r, n - 1) designates; otherwise it fails and leaves the three
\* files as they were.
C17_OpenSucceedsIffRevisionExists ==
    [][\A rdwr \in BOOLEAN, p \in FaPageSizes, r \in FaRevisionIds,
          m \in FaComments :
          (/\ DiskHasHeader /\ ~DiskLocked /\ HasWholeHistory(onion)
           /\ Len(StoredWholeHistory(onion).pointers) >= 1
           /\ UINT64DECODE(StoredWholeHistory(onion).n_revisions)
                 = Len(StoredWholeHistory(onion).pointers)
           /\ \A i \in 1..Len(StoredWholeHistory(onion).pointers) :
                 DiskPointerGood(i)
           /\ OpenExisting(rdwr, p, r, m, "none"))
          =>
          LET n == Len(StoredWholeHistory(onion).pointers)
              rpp == StoredWholeHistory(onion).pointers[Min(r, n - 1) + 1]
              rec == GetBlob(onion, UINT64DECODE(rpp.phys_addr),
                             UINT64DECODE(rpp.record_size), "rec")
          IN  IF r < n \/ r = H5FD_ONION_FAPL_INFO_REVISION_ID_LATEST
              THEN /\ pc' = "open"
                   /\ ret' = [op |-> "open", status |-> "SUCCEED"]
                   /\ file'.logi_eof = UINT64DECODE(rec.logi_eof)
                   /\ file'.rev_record.archival_index.n_entries
                         = UINT64DECODE(rec.n_entries)
                   /\ \A i \in 1..Len(rec.entries) :
                         file'.rev_record.archival_index.list[i].phys_addr
                            = UINT64DECODE(rec.entries[i].phys_addr)
              ELSE /\ pc' = "closed"
                   /\ ret'.op = "open" /\ ret'.status # "SUCCEED"
                   /\ UNCHANGED <<canon, onion, recov>>]_vars

\* C18: in every whole-history written to the onion file the record
\* pointers' phys_addr are strictly increasing; when the close of a
\* read/write session has succeeded, the stored whole-history holds the
\* pointers the session found at open, unchanged and in order, followed by
\* exactly one new pointer, and n_revisions is one more than at open.
C18_PointersAppendInOrder ==
    /\ \A i \in 1..Len(onion.ext) :
          onion.ext[i].blob.kind = "whs" =>
              \A j \in 1..(Len(onion.ext[i].blob.meta.pointers) - 1) :
                  UINT64DECODE(onion.ext[i].blob.meta.pointers[j].phys_addr)
                     < UINT64DECODE(onion.ext[i].blob.meta.pointers[j + 1].phys_addr)
    /\ (CleanClose /\ sess.rw) =>
          /\ DiskHasHeader
          /\ HasWholeHistory(onion)
          /\ UINT64DECODE(StoredWholeHistory(onion).n_revisions)
                = sess.summary0.n_revisions + 1
          /\ Len(StoredWholeHistory(onion).pointers)
                = sess.summary0.n_revisions + 1
          /\ \A i \in 1..sess.summary0.n_revisions :
                LET rpp == StoredWholeHistory(onion).pointers[i]
                    old == sess.summary0.record_pointer_list[i]
                IN  /\ UINT64DECODE(rpp.phys_addr) = old.phys_addr
                    /\ UINT64DECODE(rpp.record_size) = old.record_size
                    /\ rpp.checksum = old.checksum
\* a session opened on a history of one revision has committed the second
C18_Witness ==
    /\ CleanClose /\ sess.rw /\ sess.summary0.n_revisions = 1
    /\ Len(StoredWholeHistory(onion).pointers) = 2

\* C19: when the stored header carries the page-alignment flag, every
\* phys_addr of every archival index entry in a stored record, every record
\* pointer's phys_addr in a stored whole-history, the whole_history_addr of
\* the stored header, and history_eof whenever a page, a record or a
\* whole-history is about to be placed at it, are multiples of the page
\* size.
C19_AlignedAddresses ==
    (DiskHasHeader /\ H5FD__ONION_HEADER_FLAG_PAGE_ALIGNMENT \in DiskFlags) =>
        LET S == GetBlob(onion, 0, H5FD__ONION_ENCODED_SIZE_HEADER, "hdr").page_size
        IN  /\ StoredAddr(onion) % S = 0
            /\ \A i \in 1..Len(onion.ext) :
                  /\ onion.ext[i].blob.kind = "rec" =>
                        \A j \in 1..Len(onion.ext[i].blob.meta.entries) :
                            UINT64DECODE(onion.ext[i].blob.meta.entries[j].phys_addr)
                               % S = 0
                  /\ onion.ext[i].blob.kind = "whs" =>
                        \A j \in 1..Len(onion.ext[i].blob.meta.pointers) :
                            UINT64DECODE(onion.ext[i].blob.meta.pointers[j].phys_addr)
                               % S = 0
            /\ (file.is_open_rw /\ pc \in {"open", "write", "close_whs"}) =>
                  file.history_eof % S = 0

\* C20: between the calls of a read/write session logi_eof is the larger
\* of the parent revision's logi_eof (0 for a created file) and the end
\* offset + len of the furthest write of len > 0 of the session, and no call
\* of the session lowers it; the record a successful close commits stores
\* that value, and get_eof on a handle just opened on a stored record
\* returns the logi_eof stored in that record.
C20_LogiEofIsMaxOfWrites ==
    /\ [](LET SessionEof ==
                  IF sess.written = {} THEN sess.eof0
                  ELSE Max(sess.eof0,
                           1 + CHOOSE a \in sess.written :
                                   \A b \in sess.written : b <= a)
              RecordEof(f, rpp) ==
                  UINT64DECODE(GetBlob(f, rpp.phys_addr, rpp.record_size,
                                       "rec").logi_eof)
          IN  /\ (pc = "open" /\ file.is_open_rw) => file.logi_eof = SessionEof
              /\ (CleanClose /\ sess.rw) =>
                    \A d \in {H5FD_onion_whole_history_decode(
                                 StoredWholeHistory(onion),
                                 [NullSummary EXCEPT !.n_revisions =
                                     sess.summary0.n_revisions + 1]).summary} :
                        RecordEof(onion, d.record_pointer_list[d.n_revisions])
                           = SessionEof
              /\ (/\ pc = "open" /\ sess.existing
                  /\ sess.summary0.n_revisions > 0
                  /\ ret = [op |-> "open", status |-> "SUCCEED"]) =>
                    H5FD__onion_get_eof(file)
                       = RecordEof(sess.onion0,
                                   sess.summary0.record_pointer_list[sess.rev + 1]))
    /\ [][(pc \in {"open", "write"} /\ pc' \in {"open", "write"}) =>
             file'.logi_eof >= file.logi_eof]_vars
\* a session on a revision whose logi_eof lies beyond every write of the
\* session has committed
C20_Witness ==
    /\ CleanClose /\ sess.rw /\ sess.existing
    /\ sess.written # {}
    /\ \A a \in sess.written : a + 1 < sess.eof0

\* C20 as stated, with offset + len taken over every write call of the
\* session, those of len = 0 included: logi_eof between calls, and the
\* logi_eof a successful close commits, is the larger of the parent's
\* logi_eof and the furthest offset + len.
C20_EveryWriteCounts ==
    LET SessionEof == Max(sess.eof0, sess.wend)
    IN  /\ (pc = "open" /\ file.is_open_rw) => file.logi_eof = SessionEof
        /\ (CleanClose /\ sess.rw) =>
              \A d \in {H5FD_onion_whole_history_decode(
                           StoredWholeHistory(onion),
                           [NullSummary EXCEPT !.n_revisions =
                               sess.summary0.n_revisions + 1]).summary} :
                  UINT64DECODE(GetBlob(onion,
                      d.record_pointer_list[d.n_revisions].phys_addr,
                      d.record_pointer_list[d.n_revisions].record_size,
                      "rec").logi_eof) = SessionEof

(***************************************************************************)
(* A file that was created and closed without a write.  The list of an     *)
(* empty archival index is HDmalloc(0) or HDcalloc(0, ..), taken to return *)
(* a non-null pointer.                                                      *)
(***************************************************************************)
\* C21: when the session that created the files closes successfully
\* without having written a byte, the stored whole-history holds exactly one
\* record pointer, and the record it designates has revision_id 0, an empty
\* archival index and logi_eof 0; a read-only open of that file at revision
\* 0 succeeds and get_eof reports 0.
C21_UnwrittenFileHasEmptyRevision ==
    /\ []((CleanClose /\ sess.created /\ sess.written = {}) =>
             /\ DiskHasHeader
             /\ HasWholeHistory(onion)
             /\ UINT64DECODE(StoredWholeHistory(onion).n_revisions) = 1
             /\ Len(StoredWholeHistory(onion).pointers) = 1
             /\ DiskPointerGood(1)
             /\ \A rec \in {GetBlob(onion,
                     UINT64DECODE(StoredWholeHistory(onion).pointers[1].phys_addr),
                     UINT64DECODE(StoredWholeHistory(onion).pointers[1].record_size),
                     "rec")} :
                   /\ UINT64DECODE(rec.revision_id) = 0
                   /\ UINT64DECODE(rec.n_entries) = 0
                   /\ rec.entries = <<>>
                   /\ UINT64DECODE(rec.logi_eof) = 0)
    /\ [][\A p \in FaPageSizes, m \in FaComments :
             (/\ CleanClose /\ sess.created /\ sess.written = {}
              /\ OpenExisting(FALSE, p, 0, m, "none"))
             => /\ pc' = "open"
                /\ ret' = [op |-> "open", status |-> "SUCCEED"]
                /\ ~file'.is_open_rw
                /\ H5FD__onion_get_eof(file') = 0
                /\ file'.rev_record.archival_index.n_entries = 0]_vars
\* a read-only handle on revision 0 of a file whose only revision was
\* committed by a session that wrote nothing
C21_Witness ==
    /\ pc = "open" /\ ~file.is_open_rw /\ sess.existing
    /\ file.fa.revision_id = 0
    /\ sess.summary0.n_revisions = 1
    /\ file.rev_record.archival_index.n_entries = 0
    /\ file.logi_eof = 0

\* C22: an open for reading and writing, without create/truncate, of a
\* canonical file that has no onion file fails: it returns no handle and
\* leaves no onion file and no recovery file; an onion file comes into
\* existence only through an open with create/truncate.
C22_MissingOnionIsRefused ==
    [][/\ \A p \in FaPageSizes, c \in FaCreationFlags, r \in FaRevisionIds,
             m \in FaComments, fault \in OpenRwFaults :
             OpenMissingOnion(TRUE, p, c, r, m, fault) =>
                 /\ pc' = "closed"
                 /\ ret'.op = "open" /\ ret'.status # "SUCCEED"
                 /\ ~onion'.exists
                 /\ ~recov'.exists
       /\ (~onion.exists /\ onion'.exists) =>
             \E p \in FaPageSizes, c \in FaCreationFlags, m \in FaComments :
                 OpenCreate(p, c, m)]_vars

(***************************************************************************)
(* Damage to the onion file at rest.  One byte of a stored header,          *)
(* whole-history or revision record that the file designates is altered     *)
(* after a successful close.                                                *)
(* With the ideal checksum a structure with an altered byte never decodes:  *)
(* its extent stops being an intact encoding.  The byte is either in a      *)
(* field the decoders only copy ("value") or in a count the first pass of   *)
(* a decoder uses to advance its read pointer before it compares the        *)
(* checksum ("count": n_revisions of a whole-history; n_entries,            *)
(* username_size or comment_size of a record).                              *)
(***************************************************************************)
\* the extent at [addr, addr + size) of f is a damaged structure of this
\* kind, with the altered byte in one of these fields
IsDamaged(f, addr, size, kind, fields) ==
    \E i \in 1..Len(f.ext) :
        /\ f.ext[i].addr = addr
        /\ f.ext[i].size = size
        /\ f.ext[i].blob.kind = "bad"
        /\ f.ext[i].blob.meta.of = kind
        /\ f.ext[i].blob.meta.field \in fields

AlterByte(i, field) ==
    /\ pc = "closed"
    /\ ret = [op |-> "close", status |-> "SUCCEED"]
    /\ onion.exists
    /\ i \in 1..Len(onion.ext)
    /\ onion.ext[i].off = 0
    /\ \/ onion.ext[i].blob.kind = "hdr"
       \/ /\ onion.ext[i].blob.kind = "whs"
          /\ DiskHasHeader
          /\ onion.ext[i].addr = StoredAddr(onion)
          /\ onion.ext[i].size = StoredSize(onion)
       \/ /\ onion.ext[i].blob.kind = "rec"
          /\ DiskHasHeader
          /\ HasWholeHistory(onion)
          /\ \E j \in 1..Len(StoredWholeHistory(onion).pointers) :
                /\ onion.ext[i].addr
                      = UINT64DECODE(StoredWholeHistory(onion).pointers[j].phys_addr)
                /\ onion.ext[i].size
                      = UINT64DECODE(StoredWholeHistory(onion).pointers[j].record_size)
    /\ field = "count" => onion.ext[i].blob.kind \in {"whs", "rec"}
    /\ \A j \in 1..Len(onion.ext) : onion.ext[j].blob.kind # "bad"
    /\ onion' = [onion EXCEPT
                    !.ext[i].blob = MetaBlob("bad", [of |-> onion.ext[i].blob.kind,
                                                     field |-> field])]
    /\ io' = <<>>
    /\ ret' = [op |-> "alter", status |-> "SUCCEED"]
    /\ UNCHANGED <<canon, recov, file, pc, wr, rd, sess, logical, revs, nwrites>>

\* the open of on for revision_id reads a structure with a damaged count:
\* the first decoding pass moves its pointer by the count read from the
\* buffer and H5_checksum_fletcher32 then runs over the bytes up to there,
\* which may lie beyond the end of the buffer
OverrunRead(on, r0, revision_id) ==
    \E h \in {H5FD__onion_injest_history_header(on)} :
    \E w \in {H5FD__onion_injest_whole_history(NullSummary, on,
                 h.header.whole_history_addr, h.header.whole_history_size)} :
       /\ h.ok
       /\ H5FD__ONION_HEADER_FLAG_WRITE_LOCK \notin h.header.flags
       /\ IF ~w.ok
          THEN /\ on.eof >= h.header.whole_history_addr
                              + h.header.whole_history_size
               /\ IsDamaged(on, h.header.whole_history_addr,
                            h.header.whole_history_size, "whs", {"count"})
          ELSE /\ w.summary.n_revisions > 0
               /\ \/ revision_id < w.summary.n_revisions
                  \/ revision_id = H5FD_ONION_FAPL_INFO_REVISION_ID_LATEST
               /\ \E r \in {H5FD__onion_injest_revision_record(
                               r0, on,
                               h.header.whole_history_addr
                                  + h.header.whole_history_size,
                               w.summary,
                               Min(revision_id, w.summary.n_revisions - 1))} :
                     /\ ~r.ok
                     /\ r.io # <<>>
                     /\ IsDamaged(on, r.io[Len(r.io)].addr,
                                  r.io[Len(r.io)].size, "rec", {"count"})

\* H5FD__onion_open without create/truncate when the read past the buffer
\* ends the process
OpenOverrun(page_size, revision_id) ==
    /\ pc = "closed"
    /\ canon.exists
    /\ onion.exists
    /\ OverrunRead(onion, OpenRecord(page_size), revision_id)
    /\ pc' = "closed"
    /\ file' = NullFile
    /\ io' = <<>>
    /\ rd' = NoRead
    /\ ret' = [op |-> "open", status |-> "abort"]
    /\ UNCHANGED <<canon, onion, recov, wr, sess, logical, revs, nwrites>>

NextDamage ==
    \/ Next
    \/ \E i \in 1..(2 * MaxRevisions + MaxWrites + 2),
          field \in {"value", "count"} : AlterByte(i, field)
    \/ \E p \in FaPageSizes, r \in FaRevisionIds : OpenOverrun(p, r)

SpecDamage == Init /\ [][NextDamage]_vars

\* C23: an open without create/truncate that meets a structure with an
\* altered byte fails, returns no handle and leaves the three files as they
\* were: when the header is damaged; when the whole-history the header
\* designates is damaged; and when the record of the revision the open
\* asks for is damaged.
C23_DamageFailsTheOpen ==
    [][\A rdwr \in BOOLEAN, p \in FaPageSizes, r \in FaRevisionIds,
          m \in FaComments, fault \in OpenRwFaults :
          LET any == {"value", "count"}
              n == Len(StoredWholeHistory(onion).pointers)
              rpp == StoredWholeHistory(onion).pointers[Min(r, n - 1) + 1]
              damaged ==
                  IF ~DiskHasHeader
                  THEN IsDamaged(onion, 0, H5FD__ONION_ENCODED_SIZE_HEADER,
                                 "hdr", any)
                  ELSE IF DiskLocked THEN FALSE
                  ELSE IF ~HasWholeHistory(onion)
                  THEN IsDamaged(onion, StoredAddr(onion), StoredSize(onion),
                                 "whs", any)
                  ELSE /\ n >= 1
                       /\ r < n \/ r = H5FD_ONION_FAPL_INFO_REVISION_ID_LATEST
                       /\ IsDamaged(onion, UINT64DECODE(rpp.phys_addr),
                                    UINT64DECODE(rpp.record_size), "rec", any)
          IN  (/\ onion.exists
               /\ damaged
               /\ OpenExisting(rdwr, p, r, m, fault) \/ OpenOverrun(p, r))
              => /\ pc' = "closed"
                 /\ file' = NullFile
                 /\ ret'.op = "open"
                 /\ ret'.status \notin {"SUCCEED", "abort"}
                 /\ UNCHANGED <<canon, onion, recov>>]_vars

(***************************************************************************)
(* The history header codec on its own.  A 64-bit field of the structure   *)
(* is held as its two 32-bit halves [lo32, hi32], so that values of 2^32    *)
(* and above are represented exactly; flags are a set of bits of the        *)
(* 24-bit flags word.                                                       *)
(***************************************************************************)
\* H5FD_onion_history_header_encode of a header whose 64-bit fields are
\* held as halves: UINT64ENCODE lays out all eight bytes of each
H5FD_onion_history_header_encode_wide(header) ==
    [flags |-> header.flags,
     page_size |-> header.page_size,
     origin_eof |-> [lo32 |-> header.origin_eof.lo32,
                     hi32 |-> header.origin_eof.hi32],
     whole_history_addr |-> [lo32 |-> header.whole_history_addr.lo32,
                             hi32 |-> header.whole_history_addr.hi32],
     whole_history_size |-> [lo32 |-> header.whole_history_size.lo32,
                             hi32 |-> header.whole_history_size.hi32]]

\* every header over a few low and high halves of the 64-bit fields
InitHeader ==
    /\ \E flags \in SUBSET {H5FD__ONION_HEADER_FLAG_WRITE_LOCK,
                            H5FD__ONION_HEADER_FLAG_PAGE_ALIGNMENT},
          page_size \in {MaxPageSize, 2 * MaxPageSize},
          o \in {0, 1, H5FD__ONION_ENCODED_SIZE_HEADER} \X {0, 1},
          a \in {0, 1, H5FD__ONION_ENCODED_SIZE_HEADER} \X {0, 1},
          z \in {0, 1, H5FD__ONION_ENCODED_SIZE_HEADER} \X {0, 1} :
          file = [NullFile EXCEPT !.header =
                     [flags |-> flags, page_size |-> page_size,
                      origin_eof |-> [lo32 |-> o[1], hi32 |-> o[2]],
                      whole_history_addr |-> [lo32 |-> a[1], hi32 |-> a[2]],
                      whole_history_size |-> [lo32 |-> z[1], hi32 |-> z[2]]]]
    /\ pc = "header"
    /\ canon = NoSuchFile
    /\ onion = NoSuchFile
    /\ recov = NoSuchFile
    /\ wr = NoWrite
    /\ rd = NoRead
    /\ io = <<>>
    /\ ret = [op |-> "none", status |-> 0]
    /\ sess = NoSess
    /\ logical = Zeros(LogiSpace)
    /\ revs = <<>>
    /\ nwrites = 0

\* H5FD_onion_history_header_encode(&header, buf, &sum)
HeaderEncode ==
    /\ pc = "header"
    /\ pc' = "encoded"
    /\ ret' = [op |-> "encode", status |-> H5FD__ONION_ENCODED_SIZE_HEADER,
               buf |-> H5FD_onion_history_header_encode_wide(file.header),
               sum |-> H5_checksum_fletcher32(
                           H5FD_onion_history_header_encode_wide(file.header))]
    /\ UNCHANGED <<canon, onion, recov, file, wr, rd, io, sess, logical, revs,
                   nwrites>>

\* H5FD_onion_history_header_decode(buf, &out) of the buffer just encoded
HeaderDecode ==
    /\ pc = "encoded"
    /\ pc' = "decoded"
    /\ ret' = [op |-> "decode", status |-> H5FD__ONION_ENCODED_SIZE_HEADER,
               header |-> H5FD_onion_history_header_decode(ret.buf),
               checksum |-> ret.sum]
    /\ UNCHANGED <<canon, onion, recov, file, wr, rd, io, sess, logical, revs,
                   nwrites>>

NextHeader == HeaderEncode \/ HeaderDecode

SpecHeader == InitHeader /\ [][NextHeader]_vars

\* C24: the header decoded from the 40 bytes that encode produced has the
\* flags, page_size, origin_eof, whole_history_addr and whole_history_size
\* of the header that was encoded, for 64-bit values of 2^32 and above as
\* well, and the checksum encode computed.
C24_HeaderRoundTrip ==
    pc = "decoded" =>
        /\ ret.header.flags = file.header.flags
        /\ ret.header.page_size = file.header.page_size
        /\ [lo32 |-> ret.header.origin_eof, hi32 |-> 0] = file.header.origin_eof
        /\ [lo32 |-> ret.header.whole_history_addr, hi32 |-> 0]
              = file.header.whole_history_addr
        /\ [lo32 |-> ret.header.whole_history_size, hi32 |-> 0]
              = file.header.whole_history_size
        /\ ret.checksum
              = H5_checksum_fletcher32(
                    H5FD_onion_history_header_encode_wide(file.header))

(***************************************************************************)
(* Opens whose configured page size is not the page size of the file.       *)
(***************************************************************************)
NextPageSize ==
    \/ Next
    \/ \E rdwr \in BOOLEAN, r \in FaRevisionIds, m \in FaComments :
          OpenExisting(rdwr, 2 * MaxPageSize, r, m, "none")

SpecPageSize == Init /\ [][NextPageSize]_vars

\* C25: in every session the page size of the header, the page size of the
\* archival index (taken from the record the session was opened on) and,
\* when the handle is open for writing, the page size of the revision index
\* are the same, whatever page size the open was configured with.
C25_PageSizesAgree ==
    pc \in {"open", "write"} =>
        /\ file.header.page_size
              = Pow2(file.rev_record.archival_index.page_size_log2)
        /\ file.is_open_rw =>
              file.rev_index.page_size_log2
                 = file.rev_record.archival_index.page_size_log2

\* C26: a write of length zero and a read of length zero change nothing: the
\* onion file, the canonical file, the recovery file and the handle (its
\* revision index, history_eof and logi_eof among the rest) stay as they
\* are, no backend call is made, and the read stores no byte in the output
\* buffer.
C26_ZeroLengthIsNoOp ==
    [][/\ \A offset \in 0..LogiSpace :
            Write(offset, 0) =>
                /\ UNCHANGED <<canon, onion, recov, file, pc>>
                /\ io' = <<>>
       /\ \A offset \in 0..LogiSpace :
            Read(offset, 0) =>
                /\ UNCHANGED <<canon, onion, recov, file, pc>>
                /\ io' = <<>>
                /\ rd'.buf = <<>>]_vars

\* a zero-length write, then a zero-length read, have returned on a handle
\* open for writing
C26_Witness ==
    /\ pc = "open"
    /\ file.is_open_rw
    /\ nwrites = 1
    /\ ret = [op |-> "write", status |-> "SUCCEED"]
    /\ sess.written = {}
    /\ file.rev_index.n_entries = 0
    /\ rd.valid /\ rd.len = 0 /\ rd.ret = "SUCCEED"

\* C27: the close of a handle opened for writing writes the onion file in
\* this order, each step only after the one before it succeeded: the new
\* revision record at history_eof; the whole-history, whose last pointer
\* designates that record, after the record; the header at offset 0, with
\* the write lock cleared and designating that whole-history; then the
\* recovery file is removed and the close returns success.  The recovery
\* file is removed by no other step.
C27_CloseWritesInOrder ==
    [][/\ (pc # "close_whs" /\ pc' = "close_whs") =>
            /\ pc = "open" /\ file.is_open_rw
            /\ Len(io') = 1
            /\ io'[1] = IoWrite("onion", file.history_eof, io'[1].size)
            /\ HasBlob(onion', file.history_eof, io'[1].size, "rec")
       /\ (pc # "close_hdr" /\ pc' = "close_hdr") =>
            /\ pc = "close_whs"
            /\ Len(io') = 1
            /\ io'[1] = IoWrite("onion", file.history_eof, io'[1].size)
            /\ HasBlob(onion', file.history_eof, io'[1].size, "whs")
            /\ LET whs == GetBlob(onion', file.history_eof, io'[1].size, "whs")
                   n == UINT64DECODE(whs.n_revisions)
                   rpp == whs.pointers[n]
               IN  /\ n = sess.summary0.n_revisions + 1
                   /\ HasBlob(onion', UINT64DECODE(rpp.phys_addr),
                              UINT64DECODE(rpp.record_size), "rec")
                   /\ UINT64DECODE(rpp.phys_addr) = sess.heof0
                        + file.header.page_size * file.rev_index.n_entries
                   /\ UINT64DECODE(rpp.phys_addr) + UINT64DECODE(rpp.record_size)
                         <= file.history_eof
       /\ (pc # "close_recov" /\ pc' = "close_recov") =>
            /\ pc = "close_hdr"
            /\ io' = <<IoWrite("onion", 0, H5FD__ONION_ENCODED_SIZE_HEADER)>>
            /\ HasBlob(onion', 0, H5FD__ONION_ENCODED_SIZE_HEADER, "hdr")
            /\ H5FD__ONION_HEADER_FLAG_WRITE_LOCK
                  \notin GetBlob(onion', 0, H5FD__ONION_ENCODED_SIZE_HEADER,
                                 "hdr").flags
            /\ StoredAddr(onion') + StoredSize(onion') = file.history_eof
            /\ HasWholeHistory(onion')
            /\ UINT64DECODE(StoredWholeHistory(onion').n_revisions)
                  = sess.summary0.n_revisions + 1
       /\ (recov.exists /\ ~recov'.exists) =>
            /\ pc = "close_recov"
            /\ io' = <<IoUnlink("recov")>>
            /\ UNCHANGED onion
       /\ (file.is_open_rw /\ ret'.op = "close" /\ ret'.status = "SUCCEED"
             /\ pc # "closed" /\ pc' = "closed") =>
            /\ pc = "close_recov"
            /\ ~recov'.exists]_vars

\* a handle opened for writing on a file with a committed revision, and
\* written to, was closed through all four steps
C27_Witness ==
    /\ CleanClose
    /\ sess.rw /\ sess.existing
    /\ sess.summary0.n_revisions >= 1
    /\ sess.written # {}
    /\ ~recov.exists
    /\ DiskHasHeader /\ ~DiskLocked
    /\ HasWholeHistory(onion)
    /\ UINT64DECODE(StoredWholeHistory(onion).n_revisions)
          = sess.summary0.n_revisions + 1

\* C28: when the first page of a write is already in the revision index and
\* the write covers only part of it, the page stored at its phys_addr
\* afterwards is the page stored there before with the new bytes laid over
\* [head gap, head gap + chunk): the new bytes start at the head gap and
\* every other byte of the page is as it was.
C28_PartialWriteOverlaysAtHeadGap ==
    [][\A s \in WriteShapes(MaxPageSize) :
          LET w == [offset |-> s[1], len |-> s[2],
                    buf |-> WriteBuf(nwrites + 1, s[2]), i |-> 0,
                    n_pages |-> NPages(file, s[2]), bytes_to_write |-> s[2],
                    pos |-> 0]
              page_size == file.header.page_size
              live == H5FD_onion_revision_index_find(file.rev_index,
                                                     PageIndex(file, w))
              head == PageGapHead(file, w.offset, 0)
              chunk == PageBytes(file, 0, w.n_pages, head, w.len)
          IN  (/\ Write(s[1], s[2])
               /\ s[2] > 0
               /\ live.ret = 1
               /\ head + chunk <= page_size
               /\ head # 0 \/ head + chunk # page_size)
              => FileRead(onion', live.entry.phys_addr, page_size)
                    = Overlay(FileRead(onion, live.entry.phys_addr, page_size),
                              head, SubSeq(w.buf, 1, chunk))]_vars

\* C29: in the history a successful close of a read/write session leaves on
\* disk, (a) the phys_addr the newest record gives for a page written in the
\* session is one that no earlier record gives for that page; (b) no record gives
\* one phys_addr to two logical pages; (c) no page slot of any record
\* overlaps a record or the whole-history the header designates, or the
\* whole-history the header designated when the session was opened.
C29_PageSlotsAreFresh ==
    (CleanClose /\ sess.rw /\ DiskHasHeader /\ HasWholeHistory(onion)
       /\ \A i \in 1..Len(StoredWholeHistory(onion).pointers) : DiskPointerGood(i))
    =>
    LET ptrs == StoredWholeHistory(onion).pointers
        n == Len(ptrs)
        page_size == GetBlob(onion, 0, H5FD__ONION_ENCODED_SIZE_HEADER,
                             "hdr").page_size
        Rec(i) == GetBlob(onion, UINT64DECODE(ptrs[i].phys_addr),
                          UINT64DECODE(ptrs[i].record_size), "rec")
        \* the phys_addrs record i gives for the page at logical address a
        Slots(i, a) == {UINT64DECODE(Rec(i).entries[k].phys_addr) :
                          k \in {k \in 1..Len(Rec(i).entries) :
                                   UINT64DECODE(Rec(i).entries[k].logi_addr) = a}}
        AllSlots(i) == {UINT64DECODE(Rec(i).entries[k].phys_addr) :
                          k \in 1..Len(Rec(i).entries)}
        Overlaps(a, addr, size) == a < addr + size /\ addr < a + page_size
    IN  /\ \A b \in sess.written :
             LET a == (b \div page_size) * page_size
             IN  \A i \in 1..(n - 1) : Slots(n, a) \cap Slots(i, a) = {}
        /\ \A i \in 1..n :
             \A j, k \in 1..Len(Rec(i).entries) :
                UINT64DECODE(Rec(i).entries[j].logi_addr)
                      # UINT64DECODE(Rec(i).entries[k].logi_addr)
                   => UINT64DECODE(Rec(i).entries[j].phys_addr)
                         # UINT64DECODE(Rec(i).entries[k].phys_addr)
        /\ \A i \in 1..n : \A a \in AllSlots(i) :
             /\ ~Overlaps(a, 0, H5FD__ONION_ENCODED_SIZE_HEADER)
             /\ ~Overlaps(a, StoredAddr(onion), StoredSize(onion))
             /\ \A j \in 1..n :
                  ~Overlaps(a, UINT64DECODE(ptrs[j].phys_addr),
                            UINT64DECODE(ptrs[j].record_size))
             /\ (sess.existing /\ HasBlob(sess.onion0, 0,
                                          H5FD__ONION_ENCODED_SIZE_HEADER, "hdr"))
                  => ~Overlaps(a, StoredAddr(sess.onion0), StoredSize(sess.onion0))

\* C30: an insertion into the revision index of a (logi_page, phys_addr)
\* pair the index already holds succeeds and leaves the entries of the index
\* and n_entries as they were; an insertion for a page the index holds with
\* another phys_addr fails and leaves the entries of that page and n_entries
\* as they were.
C30_ReinsertKeepsTheIndex ==
    [][\A page \in IndexPages : \A phys_addr \in {200 + page, 300 + page} :
          LET before == file.rev_index.hash_table
              after == file'.rev_index.hash_table
              held == UNION {{before[k][j] : j \in 1..Len(before[k])} :
                                k \in DOMAIN before}
              held_after == UNION {{after[k][j] : j \in 1..Len(after[k])} :
                                      k \in DOMAIN after}
              entry == [logi_page |-> page, phys_addr |-> phys_addr]
          IN  IndexInsert(page, phys_addr) =>
                /\ entry \in held =>
                      /\ ret'.status = "SUCCEED"
                      /\ held_after = held
                      /\ file'.rev_index.n_entries = file.rev_index.n_entries
                /\ (\E e \in held : e.logi_page = page /\ e.phys_addr # phys_addr) =>
                      /\ ret'.status = "FAIL"
                      /\ {e \in held_after : e.logi_page = page}
                            = {e \in held : e.logi_page = page}
                      /\ file'.rev_index.n_entries = file.rev_index.n_entries]_vars

\* C31: whatever insertions succeeded and however often the table was
\* doubled, the look-up of a page the index holds finds it, with the
\* phys_addr it was inserted with, and the look-up of a page the index does
\* not hold finds nothing.
C31_FindAfterInserts ==
    pc = "index" =>
        \A t \in {file.rev_index.hash_table} :
            /\ \A k \in DOMAIN t : \A j \in 1..Len(t[k]) :
                  \A r \in {H5FD_onion_revision_index_find(file.rev_index,
                                                           t[k][j].logi_page)} :
                     r.ret = 1 /\ r.entry.phys_addr = t[k][j].phys_addr
            /\ \A p \in IndexPages :
                  (\A k \in DOMAIN t : \A j \in 1..Len(t[k]) : t[k][j].logi_page # p)
                     => H5FD_onion_revision_index_find(file.rev_index, p).ret = 0

(***************************************************************************)
(* The decoders on stored structures whose trailing checksum matches the    *)
(* stored bytes while the checksum of an index entry or of a record         *)
(* pointer may not.                                                          *)
(***************************************************************************)
InitStored ==
    /\ \E n \in 0..StoredEntries :
       \E e \in [1..n -> {0, 1} \X {H5FD__ONION_ENCODED_SIZE_HEADER,
                                    H5FD__ONION_ENCODED_SIZE_HEADER + MaxPageSize}
                         \X BOOLEAN] :
          \/ ret = [op |-> "stored", kind |-> "rec", size |-> 0,
                    buf |-> [H5FD_onion_revision_record_encode(
                                [H5FD__onion_set_userinfo_in_record(NullRecord)
                                 EXCEPT !.archival_index =
                                    [page_size_log2 |-> Log2(MaxPageSize),
                                     n_entries |-> n,
                                     list |-> [i \in 1..n |->
                                        [logi_page |-> e[i][1],
                                         phys_addr |-> e[i][2]]]]])
                             EXCEPT !.entries = [i \in 1..n |->
                                [@[i] EXCEPT !.sum =
                                    IF e[i][3] THEN @
                                    ELSE H5_checksum_fletcher32(
                                            <<e[i][1] * MaxPageSize, e[i][2] + 1>>)]]]]
          \/ ret = [op |-> "stored", kind |-> "whs", size |-> 0,
                    buf |-> H5FD_onion_whole_history_encode(
                               [n_revisions |-> n,
                                record_pointer_list |-> [i \in 1..n |->
                                   [phys_addr |-> e[i][2],
                                    record_size |-> RevisionRecordEncodedSize(
                                                        e[i][1], 0, 0),
                                    checksum |->
                                       IF e[i][3]
                                       THEN H5_checksum_fletcher32(
                                               <<e[i][2], RevisionRecordEncodedSize(
                                                              e[i][1], 0, 0)>>)
                                       ELSE H5_checksum_fletcher32(
                                               <<e[i][2] + 1, RevisionRecordEncodedSize(
                                                                  e[i][1], 0, 0)>>)]]])]
    /\ file = NullFile
    /\ pc = "stored"
    /\ canon = NoSuchFile
    /\ onion = NoSuchFile
    /\ recov = NoSuchFile
    /\ wr = NoWrite
    /\ rd = NoRead
    /\ io = <<>>
    /\ sess = NoSess
    /\ logical = Zeros(LogiSpace)
    /\ revs = <<>>
    /\ nwrites = 0

\* the two passes of H5FD_onion_revision_record_decode over a stored record,
\* as H5FD__onion_injest_revision_record makes them
StoredRecordDecode ==
    /\ pc = "stored"
    /\ ret.kind = "rec"
    /\ LET first == H5FD_onion_revision_record_decode(ret.buf, NullRecord)
           alloc == [first.record EXCEPT
                        !.username = "",
                        !.comment = IF first.record.comment_size > 0
                                    THEN "" ELSE @]
           final == H5FD_onion_revision_record_decode(ret.buf, alloc)
       IN  /\ ret' = [ret EXCEPT !.op = "decode",
                                 !.size = IF first.size = 0 THEN 0 ELSE final.size]
           /\ file' = [file EXCEPT !.rev_record =
                          IF first.size = 0 \/ final.size = 0 THEN @
                          ELSE final.record]
    /\ pc' = "decoded"
    /\ UNCHANGED <<canon, onion, recov, wr, rd, io, sess, logical, revs, nwrites>>

\* the two passes of H5FD_onion_whole_history_decode over a stored
\* whole-history, as H5FD__onion_injest_whole_history makes them
StoredWholeHistoryDecode ==
    /\ pc = "stored"
    /\ ret.kind = "whs"
    /\ LET first == H5FD_onion_whole_history_decode(ret.buf, NullSummary)
           final == H5FD_onion_whole_history_decode(ret.buf, first.summary)
       IN  /\ ret' = [ret EXCEPT !.op = "decode",
                                 !.size = IF first.size = 0 THEN 0 ELSE final.size]
           /\ file' = [file EXCEPT !.summary =
                          IF first.size = 0 \/ final.size = 0 THEN @
                          ELSE final.summary]
    /\ pc' = "decoded"
    /\ UNCHANGED <<canon, onion, recov, wr, rd, io, sess, logical, revs, nwrites>>

NextStored == StoredRecordDecode \/ StoredWholeHistoryDecode

SpecStored == InitStored /\ [][NextStored]_vars

\* C32: the decoding of a stored record fails when the checksum of one of its
\* index entries is not the checksum of the entry's 16 bytes, and the
\* decoding of a stored whole-history fails when the checksum of one of its
\* record pointers is not the checksum of the pointer's 16 bytes, also when
\* the trailing checksum of the structure matches the stored bytes.
C32_EntryChecksumIsVerified ==
    pc = "decoded" =>
        /\ (ret.kind = "rec"
              /\ \E i \in 1..Len(ret.buf.entries) :
                    ret.buf.entries[i].sum
                       # H5_checksum_fletcher32(
                            <<UINT64DECODE(ret.buf.entries[i].logi_addr),
                              UINT64DECODE(ret.buf.entries[i].phys_addr)>>))
             => ret.size = 0
        /\ (ret.kind = "whs"
              /\ \E i \in 1..Len(ret.buf.pointers) :
                    ret.buf.pointers[i].checksum
                       # H5_checksum_fletcher32(
                            <<UINT64DECODE(ret.buf.pointers[i].phys_addr),
                              UINT64DECODE(ret.buf.pointers[i].record_size)>>))
             => ret.size = 0

\* C33: a write on a handle opened read-only returns an error to its caller,
\* with every assertion of the write routine holding on the way, and leaves
\* the onion file, the canonical file and the handle (logi_eof and
\* history_eof among its fields) as they were.
C33_ReadOnlyWriteFailsCleanly ==
    [][WriteReadOnly =>
          /\ ret' = [op |-> "write", status |-> "FAIL"]
          /\ pc' = "open"
          /\ UNCHANGED <<canon, onion, recov, file>>]_vars

\* C34: a read-only session, from its open through its set_eoa and read
\* calls to its close, leaves the onion file, the canonical file and the
\* recovery file as they were (so the write lock is never set and
\* n_revisions does not change), makes no recovery file, and sends no write
\* and no create to a backing file.
C34_ReadOnlySessionWritesNothing ==
    [][/\ (pc = "open" /\ ~file.is_open_rw) =>
             /\ UNCHANGED <<canon, onion, recov>>
             /\ \A i \in 1..Len(io') : io'[i].op \in {"read", "open"}
       /\ \A p \in FaPageSizes, r \in FaRevisionIds, m \in FaComments :
             (\/ OpenExisting(FALSE, p, r, m, "none")
              \/ \E c \in FaCreationFlags :
                    OpenMissingOnion(FALSE, p, c, r, m, "none")) =>
                /\ UNCHANGED <<canon, onion, recov>>
                /\ \A i \in 1..Len(io') : io'[i].op \in {"read", "open"}]_vars

\* a read-only handle on a committed revision has set the EOA and read
\* bytes; the files are as they were when it was opened
C34_Witness ==
    /\ pc = "open" /\ ~file.is_open_rw /\ sess.existing
    /\ sess.summary0.n_revisions >= 1
    /\ file.logi_eoa > 0
    /\ rd.valid /\ rd.len > 0 /\ rd.ret = "SUCCEED"
    /\ onion = sess.onion0
    /\ ~DiskLocked

\* C35: an open of an existing onion file whose header carries no write
\* lock, when it fails at whatever step, leaves the header on disk without
\* the write lock.
C35_FailedOpenLeavesNoLock ==
    [][(/\ pc = "closed" /\ pc' = "closed"
        /\ DiskHasHeader /\ ~DiskLocked
        /\ ret'.op = "open" /\ ret'.status # "SUCCEED"
        /\ io' # <<>>)
       => ~DiskLocked']_vars

(***************************************************************************)
(* Two processes opening one onion file read/write.  The driver takes no    *)
(* lock on the backing files: the only exclusion is the write-lock flag of  *)
(* the header, read by H5FD__onion_open and written by H5FD__onion_open_rw. *)
(* While the two opens run pc is "race" and file.proc holds, for each       *)
(* process, the position of its open call and the handle it is building;    *)
(* file.is_open_rw is FALSE, there being no handle of a single process.     *)
(***************************************************************************)
RaceProcs == {1, 2}

\* two processes call H5FD__onion_open with H5F_ACC_RDWR on the file a
\* session has committed and left unlocked; what is recorded of that one
\* session (ret, sess, logical) is reset
RaceBegin ==
    /\ CleanClose
    /\ canon.exists
    /\ DiskHasHeader /\ ~DiskLocked
    /\ pc' = "race"
    /\ file' = [is_open_rw |-> FALSE,
                proc |-> [p \in RaceProcs |-> [at |-> "start",
                                               handle |-> NullFile]]]
    /\ io' = <<>>
    /\ rd' = NoRead
    /\ ret' = [op |-> "none", status |-> "SUCCEED"]
    /\ sess' = NoSess
    /\ logical' = Zeros(LogiSpace)
    /\ UNCHANGED <<canon, onion, recov, wr, revs, nwrites>>

\* H5FD__onion_open of process p up to the call of H5FD__onion_open_rw: the
\* header is read and its write-lock flag tested, the whole-history and the
\* revision record are read
RaceIngest(p, page_size, revision_id) ==
    /\ pc = "race"
    /\ file.proc[p].at = "start"
    /\ \E h \in {H5FD__onion_injest_history_header(onion)} :
       \E w \in {H5FD__onion_injest_whole_history(NullSummary, onion,
                    h.header.whole_history_addr, h.header.whole_history_size)} :
       \E r \in {IF w.summary.n_revisions > 0
                 THEN H5FD__onion_injest_revision_record(
                          OpenRecord(page_size), onion,
                          h.header.whole_history_addr + h.header.whole_history_size,
                          w.summary,
                          Min(revision_id, w.summary.n_revisions - 1))
                 ELSE [ok |-> TRUE, record |-> OpenRecord(page_size),
                       io |-> <<>>]} :
       LET eoa == h.header.whole_history_addr + h.header.whole_history_size
           align == H5FD__ONION_HEADER_FLAG_PAGE_ALIGNMENT \in h.header.flags
           good == /\ h.ok
                   /\ H5FD__ONION_HEADER_FLAG_WRITE_LOCK \notin h.header.flags
                   /\ w.ok
                   /\ \/ revision_id < w.summary.n_revisions
                      \/ revision_id = H5FD_ONION_FAPL_INFO_REVISION_ID_LATEST
                   /\ r.ok
       IN  /\ file' = [file EXCEPT !.proc[p] =
                 IF good
                 THEN [at |-> "ingested",
                       handle |-> [NullFile EXCEPT
                          !.fa = [page_size |-> page_size,
                                  revision_id |-> revision_id,
                                  creation_flags |-> {}, comment |-> ""],
                          !.page_align_history = align,
                          !.header = h.header,
                          !.summary = w.summary,
                          !.rev_record = r.record,
                          !.origin_eof = h.header.origin_eof,
                          !.logi_eof = r.record.logi_eof,
                          !.onion_eoa = eoa,
                          !.history_eof = OpenHistoryEof(eoa, align,
                                                         h.header.page_size)]]
                 ELSE [at |-> "failed", handle |-> NullFile]]
           /\ io' = <<IoOpen("canon", "open"), IoOpen("onion", "open")>>
                       \o h.io \o (IF h.ok THEN w.io ELSE <<>>)
                       \o (IF h.ok /\ w.ok THEN r.io ELSE <<>>)
    /\ UNCHANGED <<canon, onion, recov, pc, wr, rd, ret, sess, logical, revs,
                   nwrites>>

\* H5FD__onion_open_rw of process p, first half: the flag of the header the
\* process holds in memory is tested, the recovery file is created
\* (truncated when it exists) and the whole-history written to it
RaceRecovery(p) ==
    /\ pc = "race"
    /\ file.proc[p].at = "ingested"
    /\ LET f == file.proc[p].handle
           whs_size == WholeHistoryEncodedSize(f.summary.n_revisions)
       IN  IF H5FD__ONION_HEADER_FLAG_WRITE_LOCK \in f.header.flags
           THEN /\ file' = [file EXCEPT !.proc[p] = [at |-> "failed",
                                                handle |-> NullFile]]
                /\ io' = <<>>
                /\ UNCHANGED recov
           ELSE /\ recov' = RecoveryImage(f.summary)
                /\ io' = <<IoOpen("recov", "create"),
                           IoWrite("recov", 0, whs_size)>>
                /\ file' = [file EXCEPT !.proc[p] =
                      IF whs_size # f.header.whole_history_size
                      THEN [at |-> "failed", handle |-> NullFile]
                      ELSE [@ EXCEPT !.at = "recovered"]]
    /\ UNCHANGED <<canon, onion, pc, wr, rd, ret, sess, logical, revs, nwrites>>

\* H5FD__onion_open_rw of process p, second half: the header is written
\* back with the write-lock flag, the revision index is made and the handle
\* becomes a read/write handle
RaceLock(p) ==
    /\ pc = "race"
    /\ file.proc[p].at = "recovered"
    /\ LET f == file.proc[p].handle
           locked == [f.header EXCEPT
                         !.flags = @ \cup {H5FD__ONION_HEADER_FLAG_WRITE_LOCK}]
       IN  /\ onion' = FileWrite(onion, 0, H5FD__ONION_ENCODED_SIZE_HEADER,
                          MetaBlob("hdr", H5FD_onion_history_header_encode(locked)))
           /\ io' = <<IoWrite("onion", 0, H5FD__ONION_ENCODED_SIZE_HEADER)>>
           /\ file' = [file EXCEPT !.proc[p] =
                 [at |-> "open",
                  handle |-> [f EXCEPT
                     !.header = locked,
                     !.rev_index = H5FD_onion_revision_index_init(f.fa.page_size),
                     !.rev_record.parent_revision_id = f.rev_record.revision_id,
                     !.rev_record.revision_id = f.rev_record.revision_id + 1,
                     !.is_open_rw = TRUE]]]
    /\ UNCHANGED <<canon, recov, pc, wr, rd, ret, sess, logical, revs, nwrites>>

NextRace ==
    \/ Next
    \/ RaceBegin
    \/ \E p \in RaceProcs, page_size \in FaPageSizes, r \in FaRevisionIds :
          RaceIngest(p, page_size, r)
    \/ \E p \in RaceProcs : RaceRecovery(p)
    \/ \E p \in RaceProcs : RaceLock(p)

SpecRace == Init /\ [][NextRace]_vars

\* C36: of two processes that open one unlocked onion file read/write, at
\* most one ends with a read/write handle, however their steps interleave.
C36_OneWriterAtATime ==
    pc = "race" =>
        Cardinality({p \in RaceProcs :
                        file.proc[p].at = "open" /\ file.proc[p].handle.is_open_rw}) <= 1

(***************************************************************************)
(* A reader beside a writer: the handle another process got from a          *)
(* read-only open before the read/write session started.  It never changes  *)
(* after set_eoa; what its reads return depends on it and on the files.     *)
(***************************************************************************)
\* the handle H5FD__onion_open returns read-only for page size page_size
\* from the decoded header, whole-history and revision record, after
\* H5FD__onion_set_eoa(LogiSpace)
ReadOnlyHandle(header, summary, record, page_size, revision_id) ==
    [NullFile EXCEPT
        !.fa = [page_size |-> page_size, revision_id |-> revision_id,
                creation_flags |-> {}, comment |-> ""],
        !.page_align_history =
            H5FD__ONION_HEADER_FLAG_PAGE_ALIGNMENT \in header.flags,
        !.header = header,
        !.summary = summary,
        !.rev_record = record,
        !.origin_eof = header.origin_eof,
        !.logi_eof = record.logi_eof,
        !.logi_eoa = LogiSpace,
        !.onion_eoa = header.whole_history_addr + header.whole_history_size,
        !.history_eof =
            OpenHistoryEof(header.whole_history_addr + header.whole_history_size,
                           H5FD__ONION_HEADER_FLAG_PAGE_ALIGNMENT \in header.flags,
                           header.page_size)]

\* C37: a read-only handle opened on revision k of the file as it was before
\* a read/write session on that file started gets the same result (status
\* and bytes) from every read before and after every step of that session:
\* the open, each page write, each step of the commit, a crash.  (A step
\* that leaves both files as they are cannot change what a read returns.)
C37_ReaderUndisturbed ==
    [][(/\ sess'.rw /\ sess'.existing
        /\ pc # "closed" \/ pc' = "open"
        /\ onion' # onion \/ canon' # canon) =>
        \A p \in FaPageSizes, k \in 0..(MaxRevisions - 1) :
        \A h \in {H5FD__onion_injest_history_header(sess'.onion0)} :
        \A w \in {H5FD__onion_injest_whole_history(NullSummary, sess'.onion0,
                     h.header.whole_history_addr, h.header.whole_history_size)} :
           (h.ok /\ w.ok /\ k < w.summary.n_revisions) =>
           \A r \in {H5FD__onion_injest_revision_record(
                        OpenRecord(p), sess'.onion0,
                        h.header.whole_history_addr + h.header.whole_history_size,
                        w.summary, k)} :
              r.ok =>
              \A R \in {ReadOnlyHandle(h.header, w.summary, r.record, p, k)} :
              \A s \in ReadShapes(MaxPageSize) :
                 H5FD__onion_read(R, s[1], s[2])' = H5FD__onion_read(R, s[1], s[2])]_vars

\* a read/write session opened on a revision that holds pages has written
\* one of those pages again and has committed
C37_Witness ==
    /\ CleanClose /\ sess.rw /\ sess.existing
    /\ onion # sess.onion0
    /\ \E i \in 1..Len(sess.aix0) :
          sess.aix0[i].logi_page * MaxPageSize \in sess.written

(***************************************************************************)
(* Files created by a session configured with a comment.                    *)
(***************************************************************************)
NextComment ==
    \/ Next
    \/ \E p \in FaPageSizes, c \in FaCreationFlags : OpenCreate(p, c, "note")

SpecComment == Init /\ [][NextComment]_vars

\* C38: the revision record a commit writes holds the comment configured for
\* the session that commits, with comment_size its length plus the
\* terminator; it holds no comment and comment_size 0 when the session
\* configured none, whatever the comment of the parent revision.
C38_CommentIsTheSessions ==
    [][(pc = "open" /\ pc' = "close_whs") =>
        \E buf \in {GetBlob(onion', file.history_eof,
                            file'.onion_eoa - file.history_eof, "rec")} :
           /\ buf.comment = file.fa.comment
           /\ buf.comment_size = IF file.fa.comment = "" THEN 0
                                 ELSE Len(file.fa.comment) + 1]_vars

\* C39: in every state of a revision index n_entries is the number of
\* chain nodes, the populated-bucket counter is the number of non-empty
\* buckets and the table size is a power of two, 2^10 or more; and when an
\* insertion is about to resize, the resized index has twice the size, the
\* same set of (logi_page, phys_addr) entries, and its counter again counts
\* its non-empty buckets.
C39_IndexCountsAndResize ==
    \A rix \in {file.rev_index} :
    \A t \in {rix.hash_table} :
       /\ rix.n_entries
             = Cardinality(UNION {{<<k, j>> : j \in 1..Len(t[k])} : k \in DOMAIN t})
       /\ rix.hash_table_n_keys_populated
             = Cardinality({k \in DOMAIN t : t[k] # <<>>})
       /\ rix.hash_table_size = Pow2(rix.hash_table_size_log2)
       /\ rix.hash_table_size_log2 >= H5FD__ONION_REVISION_INDEX_STARTING_SIZE_LOG2
       /\ (\/ rix.n_entries >= rix.hash_table_size * 2
           \/ rix.hash_table_n_keys_populated >= rix.hash_table_size \div 2) =>
             \A r \in {H5FD__onion_revision_index_resize(rix)} :
                /\ r.hash_table_size = 2 * rix.hash_table_size
                /\ r.hash_table_size = Pow2(r.hash_table_size_log2)
                /\ r.n_entries = rix.n_entries
                /\ UNION {{r.hash_table[k][j] : j \in 1..Len(r.hash_table[k])} :
                             k \in DOMAIN r.hash_table}
                      = UNION {{t[k][j] : j \in 1..Len(t[k])} : k \in DOMAIN t}
                /\ r.hash_table_n_keys_populated
                      = Cardinality({k \in DOMAIN r.hash_table :
                                        r.hash_table[k] # <<>>})

(***************************************************************************)
(* Destroying a revision index.                                             *)
(***************************************************************************)
\* H5FD_onion_revision_index_destroy: the loop goes up the buckets while the
\* populated-bucket counter is positive, takes one off the counter at each
\* non-empty bucket and frees its chain; leaked are the chains not reached
H5FD_onion_revision_index_destroy(rix) ==
    LET keys == SortedKeys({k \in DOMAIN rix.hash_table :
                               rix.hash_table[k] # <<>>})
        n == Min(rix.hash_table_n_keys_populated, Len(keys))
    IN  [ret |-> "SUCCEED",
         visited |-> {keys[j] : j \in 1..n},
         leaked |-> [k \in {keys[j] : j \in (n + 1)..Len(keys)} |->
                        rix.hash_table[k]]]

IndexDestroy ==
    /\ pc = "index"
    /\ \E d \in {H5FD_onion_revision_index_destroy(file.rev_index)} :
          /\ file' = [file EXCEPT !.rev_index = NullRevIndex]
          /\ ret' = [op |-> "destroy", status |-> d.ret,
                     visited |-> d.visited, leaked |-> d.leaked]
    /\ pc' = "destroyed"
    /\ UNCHANGED <<canon, onion, recov, wr, rd, io, sess, logical, revs,
                   nwrites>>

NextDestroy ==
    \/ NextIndex
    \/ IndexDestroy

SpecDestroy == InitIndex /\ [][NextDestroy]_vars

\* C40: destroying a revision index, whatever insertions and resizes made
\* it, visits every non-empty bucket and leaves no chain node allocated.
C40_DestroyFreesEveryNode ==
    [][(pc = "index" /\ pc' = "destroyed") =>
        /\ ret'.visited = {k \in DOMAIN file.rev_index.hash_table :
                              file.rev_index.hash_table[k] # <<>>}
        /\ DOMAIN ret'.leaked = {}]_vars

=============================================================================
